---- MODULE Spec2Model ----
(***************************************************************************)
(* Job orchestration core of VRchatVoiceJournal: the SQLite store          *)
(* (DatabaseManager), the coordinator loop (EventListener.listen) and the  *)
(* pull protocol of the capture, transcription and metadata workers.       *)
(* The GUI coordinator of gui.py is the one modelled; main.py carries the  *)
(* same DatabaseManager.                                                   *)
(***************************************************************************)
EXTENDS Integers, Sequences, FiniteSets, TLC

(***************************************************************************)
(* Bounds of the model.                                                    *)
(***************************************************************************)
\* session ids the environment of the coordinator may name
MaxSessions == 2
\* rows the markers table and the tags table may each hold
MaxRows == 2
\* capture segments the capture worker records in one run
MaxSegments == 1

(***************************************************************************)
(* Program constants.                                                      *)
(***************************************************************************)
ERROR == -1
PENDING == 0
TRANSCRIBE_DONE == 1
META_DONE == 2
Status == {ERROR, PENDING, TRANSCRIBE_DONE, META_DONE}

\* class WorkerStatus
WorkerStatus_IDLE == 0
WorkerStatus_RUNNING == 1
WorkerStatus_PAUSED == 2
WorkerStatus_ERROR == 3

RecordWorker == "RecordWorker-1"
TranscribeWorker == "TranscribeWorker-1"
MetaGenWorker == "MetaGenWorker-1"
WorkerNames == {RecordWorker, TranscribeWorker, MetaGenWorker}
AIWorkers == {TranscribeWorker, MetaGenWorker}
\* BackendApp.stop() is called by the quit thread and by the finally of run()
StopCallers == {"quit", "finally"}

SessionIds == 1..MaxSessions
\* a session id that is falsy in Python: "" or None
EmptyId == 0

VARIABLES
    recordings,            \* table recordings: rows [id, start_time, length, file_path, status]
    transcribes,           \* table transcribes: rows [id, segments_json]
    markers,               \* table markers: rows [id, session_id, timestamp, label]
    tags,                  \* table tags: rows [id, session_id, tag]
    ai_processing_paused,  \* EventListener.ai_processing_paused
    is_running,            \* EventListener.is_running
    result_queue,          \* the shared event channel, FIFO
    command_queues,        \* worker name -> that worker's command channel, FIFO
    log_line,              \* what the current iteration of listen() logged
    emitted,               \* the (worker, status) pairs update_status emitted in that iteration
    delivered,             \* history: session id -> segments of its latest stored transcribe_done
    db_open,               \* FALSE once DatabaseManager.close() has run
    listener_pc,           \* where the thread of listen() stands
    pc,                    \* worker name -> where that worker process stands
    job,                   \* AI worker -> payload of the latest assignment it took
    rec,                   \* locals of record_worker: pause, recording, mic_mute, vc_mute,
                           \* session_id, start (the clock), buffer (its length)
    next_session,          \* capture segments started so far (uuid4 and clock of the capture worker)
    stop_pc,               \* caller of BackendApp.stop() -> where that call stands
    is_recording_paused,   \* MainWindow.is_recording_paused
    status_labels,         \* MainWindow.status_labels: worker -> the status its label shows
    restart_pc             \* the worker MainWindow.restart_worker waits for, or "idle"

store == <<recordings, transcribes, markers, tags>>
\* the state of the processes and threads around the coordinator
procs == <<db_open, listener_pc, pc, job, rec, next_session, stop_pc,
           is_recording_paused, status_labels, restart_pc>>
vars == <<recordings, transcribes, markers, tags, ai_processing_paused, is_running,
          result_queue, command_queues, log_line, emitted, delivered,
          db_open, listener_pc, pc, job, rec, next_session, stop_pc,
          is_recording_paused, status_labels, restart_pc>>

(***************************************************************************)
(* Python and SQLite helpers.                                              *)
(***************************************************************************)
\* dict.get(key, default)
Get(d, key, default) == IF key \in DOMAIN d THEN d[key] ELSE default

\* json.dumps of a list of segment dicts: the array of objects as text,
\* modelled as the sequence of the objects' member values in key order
json_dumps(segments) ==
    [i \in 1..Len(segments) |-> <<segments[i].start, segments[i].end, segments[i].text>>]

\* json.loads of such a text: back to a list of dicts
json_loads(text) ==
    [i \in 1..Len(text) |-> [start |-> text[i][1], end |-> text[i][2], text |-> text[i][3]]]

\* str(uuid.uuid4()): an id no row of the table carries yet
uuid4(rows) == Cardinality(rows) + 1

\* the database as one value, for the statements of a transaction
Db == [recordings |-> recordings, transcribes |-> transcribes,
       markers |-> markers, tags |-> tags]

Ok(db) == [ok |-> TRUE, db |-> db]
Raise(db) == [ok |-> FALSE, db |-> db]

\* a statement on a closed connection raises sqlite3.ProgrammingError
OnConnection(result) == IF db_open THEN result ELSE Raise(Db)

\* a transaction that keeps what was executed before the exception
WithConn_nocommit(before, result) == result

\* `with self.conn:` commits when the block ends normally and rolls back to
\* the state before the block when it raises
WithConn(before, result) == IF result.ok THEN result ELSE Raise(before)

\* UPDATE recordings SET status = ? WHERE id = ?
update_status_row(db, session_id, status) ==
    [db EXCEPT !.recordings =
        {IF r.id = session_id THEN [r EXCEPT !.status = status] ELSE r : r \in @}]

\* an upsert that adds the length of the row it replaces to the new row
insert_or_replace_recording_accumulate(db, row) ==
    LET old == {r \in db.recordings : r.id = row.id}
    IN  [db EXCEPT !.recordings =
            {r \in @ : r.id # row.id}
                \cup {IF old = {} THEN row
                      ELSE [row EXCEPT !.length = @ + (CHOOSE r \in old : TRUE).length]}]

\* INSERT OR REPLACE INTO recordings: the primary key id replaces the old row
insert_or_replace_recording(db, row) ==
    [db EXCEPT !.recordings = {r \in @ : r.id # row.id} \cup {row}]

\* INSERT OR REPLACE INTO transcribes
insert_or_replace_transcribe(db, row) ==
    [db EXCEPT !.transcribes = {r \in @ : r.id # row.id} \cup {row}]

\* ORDER BY start_time ASC LIMIT 1: the rows SQLite may return as the first
OrderByStartTimeLimit1(rows) ==
    {r \in rows : \A q \in rows : r.start_time <= q.start_time}

(***************************************************************************)
(* DatabaseManager.  Every handler takes the database and the message and  *)
(* yields [ok, db]: ok is FALSE when the handler raised, db is what is     *)
(* committed.                                                              *)
(***************************************************************************)
EmptyDict == <<>>

\* find_pending_transcribe_job without the status filter
find_pending_transcribe_job_anystatus(db) ==
    {<<r.id, r.file_path>> : r \in OrderByStartTimeLimit1(db.recordings)}

\* SELECT id, file_path FROM recordings WHERE status = PENDING
\* ORDER BY start_time ASC LIMIT 1; the empty set is fetchone() = None
find_pending_transcribe_job(db) ==
    {<<r.id, r.file_path>> :
        r \in OrderByStartTimeLimit1({q \in db.recordings : q.status = PENDING})}

\* find_pending_meta_job that takes the latest session instead of the oldest
find_pending_meta_job_latest(db) ==
    LET joined == {j \in db.recordings \X db.transcribes :
                      j[1].id = j[2].id /\ j[1].status = TRANSCRIBE_DONE}
    IN  {<<j[1].id, j[2].segments_json>> :
            j \in {k \in joined : \A q \in joined : k[1].start_time >= q[1].start_time}}

\* SELECT r.id, t.segments_json FROM recordings r JOIN transcribes t ON r.id = t.id
\* WHERE r.status = TRANSCRIBE_DONE ORDER BY r.start_time ASC LIMIT 1
find_pending_meta_job(db) ==
    LET joined == {j \in db.recordings \X db.transcribes :
                      j[1].id = j[2].id /\ j[1].status = TRANSCRIBE_DONE}
        first == {j \in joined : \A q \in joined : j[1].start_time <= q[1].start_time}
    IN  {<<j[1].id, j[2].segments_json>> : j \in first}

\* handle_record_done that stores the session as already transcribed
handle_record_done_wrongstatus(db, message) ==
    LET p == Get(message, "payload", EmptyDict)
        sid == Get(p, "session_id", EmptyId)
    IN  IF {"start_time", "length", "file_path"} \subseteq DOMAIN p
        THEN Ok(insert_or_replace_recording(db,
                   [id |-> sid, start_time |-> p.start_time, length |-> p.length,
                    file_path |-> p.file_path, status |-> TRANSCRIBE_DONE]))
        ELSE Raise(db)

handle_record_done(db, message) ==
    LET p == Get(message, "payload", EmptyDict)
        sid == Get(p, "session_id", EmptyId)
    IN  IF {"start_time", "length", "file_path"} \subseteq DOMAIN p
        THEN OnConnection(WithConn(db, Ok(insert_or_replace_recording(db,
                   [id |-> sid, start_time |-> p.start_time, length |-> p.length,
                    file_path |-> p.file_path, status |-> PENDING]))))
        ELSE Raise(db)   \* KeyError on p['start_time'] before any statement

handle_transcribe_done(db, message) ==
    LET p == Get(message, "payload", EmptyDict)
        sid == Get(p, "session_id", EmptyId)
    IN  IF "segments_json" \in DOMAIN p
        THEN OnConnection(WithConn(db, Ok(update_status_row(
                   insert_or_replace_transcribe(db,
                       [id |-> sid, segments_json |-> json_dumps(p.segments_json)]),
                   sid, TRANSCRIBE_DONE))))
        ELSE Raise(db)   \* KeyError on p['segments_json']

\* for marker in markers: INSERT INTO markers; marker.get raises on a non-dict
RECURSIVE insert_markers(_, _, _)
insert_markers(db, sid, ms) ==
    IF ms = <<>> THEN Ok(db)
    ELSE IF ~Head(ms).isdict THEN Raise(db)
    ELSE insert_markers(
             [db EXCEPT !.markers = @ \cup {[id |-> uuid4(@), session_id |-> sid,
                                             timestamp |-> Head(ms).time,
                                             label |-> Head(ms).content]}],
             sid, Tail(ms))

\* for tag in tags: INSERT INTO tags; a value SQLite cannot bind raises
RECURSIVE insert_tags(_, _, _)
insert_tags(db, sid, ts) ==
    IF ts = <<>> THEN Ok(db)
    ELSE IF ~Head(ts).bindable THEN Raise(db)
    ELSE insert_tags(
             [db EXCEPT !.tags = @ \cup {[id |-> uuid4(@), session_id |-> sid,
                                          tag |-> Head(ts).text]}],
             sid, Tail(ts))

\* a transaction of handle_meta_done that stores the rows and leaves the status
meta_done_block_nostatus(db, sid, ms, ts) ==
    LET m == insert_markers(db, sid, ms)
    IN  IF ~m.ok THEN m ELSE insert_tags(m.db, sid, ts)

\* the body of the transaction of handle_meta_done
meta_done_block(db, sid, ms, ts) ==
    LET m == insert_markers(db, sid, ms)
    IN  IF ~m.ok THEN m
        ELSE LET t == insert_tags(m.db, sid, ts)
             IN  IF ~t.ok THEN t ELSE Ok(update_status_row(t.db, sid, META_DONE))

handle_meta_done(db, message) ==
    LET p == Get(message, "payload", EmptyDict)
        sid == Get(p, "session_id", EmptyId)
    IN  IF sid = EmptyId THEN Ok(db)      \* if not sid: return
        ELSE OnConnection(WithConn(db, meta_done_block(db, sid, Get(p, "markers", <<>>),
                                                       Get(p, "tags", <<>>))))

\* an error handler of the store that leaves the status as it is
db_handle_error_ignores(db, message) == Ok(db)

\* DatabaseManager.handle_error
db_handle_error(db, message) ==
    LET p == Get(message, "payload", EmptyDict)
        sid == Get(p, "session_id", EmptyId)
    IN  IF sid # EmptyId THEN OnConnection(Ok(update_status_row(db, sid, ERROR)))
        ELSE Ok(db)

(***************************************************************************)
(* EventListener: the handlers of the coordinator and one iteration of     *)
(* listen().                                                               *)
(***************************************************************************)
NoLog == <<"none", "">>

Standby == [task |-> "standby"]
Stop == [task |-> "stop"]
AssignTranscribe(found) ==
    [task |-> "transcribe", payload |-> [session_id |-> found[1], file_path |-> found[2]]]
AssignMeta(found) ==
    [task |-> "generate_meta",
     payload |-> [session_id |-> found[1], segments_json |-> json_loads(found[2])]]

\* command_queue.put(command)
Put(worker_name, command) ==
    command_queues' = [command_queues EXCEPT ![worker_name] = Append(@, command)]

\* a job request handler that forgets the reply while processing is paused
handle_transcribe_job_request_noreply(message) ==
    LET worker_name == Get(message, "worker", "")
    IN  /\ IF worker_name \notin DOMAIN command_queues \/ ai_processing_paused
           THEN UNCHANGED command_queues /\ log_line' = NoLog
           ELSE IF ~db_open
           THEN UNCHANGED command_queues
                    /\ log_line' = <<"handler_error", "request_transcribe_job">>
           ELSE IF find_pending_transcribe_job(Db) # {}
           THEN \E j \in find_pending_transcribe_job(Db) :
                    Put(worker_name, AssignTranscribe(j)) /\ log_line' = NoLog
           ELSE Put(worker_name, Standby) /\ log_line' = NoLog
        /\ UNCHANGED <<store, ai_processing_paused, delivered>>

\* a job request handler that records the dispatch in the session's row
handle_transcribe_job_request_marks(message) ==
    LET worker_name == Get(message, "worker", "")
        dispatching == /\ worker_name \in DOMAIN command_queues
                       /\ ~ai_processing_paused /\ db_open
                       /\ find_pending_transcribe_job(Db) # {}
    IN  /\ IF worker_name \notin DOMAIN command_queues
           THEN UNCHANGED command_queues /\ log_line' = NoLog
           ELSE IF ai_processing_paused
           THEN Put(worker_name, Standby) /\ log_line' = NoLog
           ELSE IF ~db_open
           THEN UNCHANGED command_queues
                    /\ log_line' = <<"handler_error", "request_transcribe_job">>
           ELSE IF find_pending_transcribe_job(Db) # {}
           THEN \E j \in find_pending_transcribe_job(Db) :
                    /\ Put(worker_name, AssignTranscribe(j)) /\ log_line' = NoLog
                    /\ recordings' = update_status_row(Db, j[1], TRANSCRIBE_DONE).recordings
           ELSE Put(worker_name, Standby) /\ log_line' = NoLog
        /\ IF dispatching THEN TRUE ELSE UNCHANGED recordings
        /\ UNCHANGED <<transcribes, markers, tags, ai_processing_paused, delivered>>

handle_transcribe_job_request(message) ==
    LET worker_name == Get(message, "worker", "")
    IN  /\ IF worker_name \notin DOMAIN command_queues
           THEN UNCHANGED command_queues /\ log_line' = NoLog   \* if not command_queue: return
           ELSE IF ai_processing_paused
           THEN Put(worker_name, Standby) /\ log_line' = NoLog
           ELSE IF ~db_open                \* the query raises, listen() logs it
           THEN UNCHANGED command_queues
                    /\ log_line' = <<"handler_error", "request_transcribe_job">>
           ELSE IF find_pending_transcribe_job(Db) # {}
           THEN \E j \in find_pending_transcribe_job(Db) :
                    Put(worker_name, AssignTranscribe(j)) /\ log_line' = NoLog
           ELSE Put(worker_name, Standby) /\ log_line' = NoLog
        /\ UNCHANGED <<store, ai_processing_paused, delivered>>

\* a metadata request handler that dispatches while processing is paused
handle_meta_job_request_ignorepause(message) ==
    LET worker_name == Get(message, "worker", "")
    IN  /\ IF worker_name \notin DOMAIN command_queues
           THEN UNCHANGED command_queues /\ log_line' = NoLog
           ELSE IF ~db_open
           THEN UNCHANGED command_queues
                    /\ log_line' = <<"handler_error", "request_metagen_job">>
           ELSE IF find_pending_meta_job(Db) # {}
           THEN \E j \in find_pending_meta_job(Db) :
                    Put(worker_name, AssignMeta(j)) /\ log_line' = NoLog
           ELSE Put(worker_name, Standby) /\ log_line' = NoLog
        /\ UNCHANGED <<store, ai_processing_paused, delivered>>

handle_meta_job_request(message) ==
    LET worker_name == Get(message, "worker", "")
    IN  /\ IF worker_name \notin DOMAIN command_queues
           THEN UNCHANGED command_queues /\ log_line' = NoLog
           ELSE IF ai_processing_paused
           THEN Put(worker_name, Standby) /\ log_line' = NoLog
           ELSE IF ~db_open
           THEN UNCHANGED command_queues
                    /\ log_line' = <<"handler_error", "request_metagen_job">>
           ELSE IF find_pending_meta_job(Db) # {}
           THEN \E j \in find_pending_meta_job(Db) :
                    Put(worker_name, AssignMeta(j)) /\ log_line' = NoLog
           ELSE Put(worker_name, Standby) /\ log_line' = NoLog
        /\ UNCHANGED <<store, ai_processing_paused, delivered>>

\* a pause switch that only ever pauses
toggle_ai_pause_sticky(message) ==
    /\ ai_processing_paused' = TRUE
    /\ log_line' = <<"ai_pause", IF ai_processing_paused' THEN "paused" ELSE "resumed">>
    /\ UNCHANGED <<store, command_queues, delivered>>

toggle_ai_pause(message) ==
    /\ ai_processing_paused' = ~ai_processing_paused
    /\ log_line' = <<"ai_pause", IF ai_processing_paused' THEN "paused" ELSE "resumed">>
    /\ UNCHANGED <<store, command_queues, delivered>>

\* EventListener.handle_error: logs the worker's error, then DatabaseManager.handle_error
handle_error(message) ==
    LET r == db_handle_error(Db, message)
    IN  /\ recordings' = r.db.recordings
        /\ log_line' = IF r.ok THEN <<"worker_error", Get(message, "worker", "")>>
                               ELSE <<"handler_error", "error">>
        /\ UNCHANGED <<transcribes, markers, tags, ai_processing_paused,
                       command_queues, delivered>>

\* a DatabaseManager handler registered in event_handlers, run under the
\* try/except of listen(): an exception is logged, the commit is what the
\* handler left
RunDbHandler(r, event) ==
    /\ log_line' = IF r.ok THEN NoLog ELSE <<"handler_error", event>>
    /\ markers' = r.db.markers
    /\ tags' = r.db.tags
    /\ recordings' = r.db.recordings
    /\ transcribes' = r.db.transcribes
    /\ UNCHANGED <<ai_processing_paused, command_queues>>

\* the history of stored transcribe_done payloads
Deliver_segments(r, message) ==
    LET p == Get(message, "payload", EmptyDict)
        sid == Get(p, "session_id", EmptyId)
    IN  delivered' = IF r.ok
                     THEN {d \in delivered : d.id # sid}
                              \cup {[id |-> sid, segments |-> p.segments_json]}
                     ELSE delivered

\* a message is a dict unless it says otherwise (a str, None, a list)
IsDict(message) == Get(message, "isdict", TRUE)

\* the events whose handler only reports the worker's status and logs
NotificationEvents ==
    {"record_started", "record_paused", "record_resumed", "record_idle",
     "transcribe_started", "transcribe_idle", "meta_started", "meta_idle"}

\* an unknown event that is taken for a toggle of the pause
unknown_event_toggles(event) ==
    /\ log_line' = <<"unknown_event", event>>
    /\ ai_processing_paused' = ~ai_processing_paused
    /\ UNCHANGED <<store, command_queues, delivered>>

\* self.event_handlers.get(event) found no handler: the warning is logged
unknown_event(event) ==
    /\ log_line' = <<"unknown_event", event>>
    /\ UNCHANGED <<store, ai_processing_paused, command_queues, delivered>>

\* the keys of self.event_handlers
event_handlers ==
    NotificationEvents \cup
    {"record_done", "transcribe_done", "meta_done", "error",
     "request_transcribe_job", "request_metagen_job", "toggle_ai_pause"}

\* update_status as listen() calls it on the name of the event, for the
\* worker the message names, before it looks up the handler
listen_signals(message) ==
    LET event == Get(message, "event", "")
        worker == Get(message, "worker", "")
    IN  IF event \in {"record_started", "transcribe_started", "meta_started"}
        THEN <<<<worker, WorkerStatus_RUNNING>>>>
        ELSE IF event = "record_paused" THEN <<<<worker, WorkerStatus_PAUSED>>>>
        ELSE IF event = "record_resumed" THEN <<<<worker, WorkerStatus_RUNNING>>>>
        ELSE IF event \in {"record_done", "transcribe_done", "meta_done",
                           "record_idle", "transcribe_idle", "meta_idle"}
        THEN <<<<worker, WorkerStatus_IDLE>>>>
        ELSE IF event = "error" THEN <<<<worker, WorkerStatus_ERROR>>>>
        ELSE <<>>

\* a dispatch that reports RUNNING for every request of a registered worker
handler_signals_eager(message) ==
    LET event == Get(message, "event", "")
        registered == Get(message, "worker", "") \in DOMAIN command_queues
        dispatching == registered /\ ~ai_processing_paused /\ db_open
    IN  CASE event \in {"record_started", "record_resumed"} ->
                <<<<RecordWorker, WorkerStatus_RUNNING>>>>
          [] event = "record_paused" -> <<<<RecordWorker, WorkerStatus_PAUSED>>>>
          [] event = "record_idle" -> <<<<RecordWorker, WorkerStatus_IDLE>>>>
          [] event = "transcribe_started" -> <<<<TranscribeWorker, WorkerStatus_RUNNING>>>>
          [] event = "transcribe_idle" -> <<<<TranscribeWorker, WorkerStatus_IDLE>>>>
          [] event = "meta_started" -> <<<<MetaGenWorker, WorkerStatus_RUNNING>>>>
          [] event = "meta_idle" -> <<<<MetaGenWorker, WorkerStatus_IDLE>>>>
          [] event = "toggle_ai_pause" ->
                << <<TranscribeWorker, WorkerStatus_PAUSED>>,
                   <<MetaGenWorker, WorkerStatus_PAUSED>> >>
          [] event = "request_transcribe_job" ->
                IF registered
                THEN <<<<TranscribeWorker, WorkerStatus_RUNNING>>>> ELSE <<>>
          [] event = "request_metagen_job" ->
                IF registered
                THEN <<<<MetaGenWorker, WorkerStatus_RUNNING>>>> ELSE <<>>
          [] OTHER -> <<>>

\* update_status as the handler of the event calls it
handler_signals(message) ==
    LET event == Get(message, "event", "")
        registered == Get(message, "worker", "") \in DOMAIN command_queues
        dispatching == registered /\ ~ai_processing_paused /\ db_open
    IN  CASE event \in {"record_started", "record_resumed"} ->
                <<<<RecordWorker, WorkerStatus_RUNNING>>>>
          [] event = "record_paused" -> <<<<RecordWorker, WorkerStatus_PAUSED>>>>
          [] event = "record_idle" -> <<<<RecordWorker, WorkerStatus_IDLE>>>>
          [] event = "transcribe_started" -> <<<<TranscribeWorker, WorkerStatus_RUNNING>>>>
          [] event = "transcribe_idle" -> <<<<TranscribeWorker, WorkerStatus_IDLE>>>>
          [] event = "meta_started" -> <<<<MetaGenWorker, WorkerStatus_RUNNING>>>>
          [] event = "meta_idle" -> <<<<MetaGenWorker, WorkerStatus_IDLE>>>>
          [] event = "toggle_ai_pause" ->
                << <<TranscribeWorker, WorkerStatus_PAUSED>>,
                   <<MetaGenWorker, WorkerStatus_PAUSED>> >>
          [] event = "request_transcribe_job" ->
                IF dispatching /\ find_pending_transcribe_job(Db) # {}
                THEN <<<<TranscribeWorker, WorkerStatus_RUNNING>>>> ELSE <<>>
          [] event = "request_metagen_job" ->
                IF dispatching /\ find_pending_meta_job(Db) # {}
                THEN <<<<MetaGenWorker, WorkerStatus_RUNNING>>>> ELSE <<>>
          [] OTHER -> <<>>

\* the handler of the event, found in self.event_handlers and called
CallHandler(message) ==
    LET event == Get(message, "event", "")
    IN  CASE event = "record_done" ->
                RunDbHandler(handle_record_done(Db, message), event)
                    /\ UNCHANGED delivered
          [] event = "transcribe_done" ->
                LET r == handle_transcribe_done(Db, message)
                IN  RunDbHandler(r, event) /\ Deliver_segments(r, message)
          [] event = "meta_done" ->
                RunDbHandler(handle_meta_done(Db, message), event)
                    /\ UNCHANGED delivered
          [] event = "error" -> handle_error(message)
          [] event = "request_transcribe_job" -> handle_transcribe_job_request(message)
          [] event = "request_metagen_job" -> handle_meta_job_request(message)
          [] event = "toggle_ai_pause" -> toggle_ai_pause(message)
          [] event \in NotificationEvents ->
                /\ log_line' = <<"notification", event>>
                /\ UNCHANGED <<store, ai_processing_paused, command_queues, delivered>>
          [] OTHER -> unknown_event(event)

\* the body of the loop of listen() for one message taken from result_queue
ProcessMessage(message) ==
    /\ emitted' = listen_signals(message) \o handler_signals(message)
    /\ CallHandler(message)

(***************************************************************************)
(* Initial state: BackendApp.__init__ and the start of BackendApp.run on a *)
(* new database file.                                                      *)
(***************************************************************************)
Init ==
    /\ recordings = {}
    /\ transcribes = {}
    /\ markers = {}
    /\ tags = {}
    /\ ai_processing_paused = FALSE
    /\ is_running = TRUE
    /\ result_queue = <<>>
    /\ command_queues = [w \in WorkerNames |-> <<>>]
    /\ log_line = NoLog
    /\ emitted = <<>>
    /\ delivered = {}
    /\ db_open = TRUE
    /\ listener_pc = "top"
    /\ pc = [w \in WorkerNames |-> "start"]
    /\ job = [w \in AIWorkers |-> EmptyDict]
    /\ rec = [pause |-> FALSE, recording |-> TRUE, mic_mute |-> FALSE, vc_mute |-> FALSE,
              session_id |-> EmptyId, start |-> 0, buffer |-> 0]
    /\ next_session = 0
    /\ stop_pc = [c \in StopCallers |-> "idle"]
    /\ is_recording_paused = FALSE
    /\ status_labels = [w \in WorkerNames |-> WorkerStatus_IDLE]
    /\ restart_pc = "idle"

(***************************************************************************)
(* The coordinator under an arbitrary producer of events: any of the       *)
(* events below may arrive in any order, one at a time; the consumer of a  *)
(* command channel takes a reply before the next event arrives.            *)
(***************************************************************************)
\* the capture worker stamps a session with the time its segment started;
\* here the later id is the earlier recording
StartTimeOf(s) == MaxSessions + 1 - s
FilePathOf(t) == <<"wav", t>>

SegmentsA == <<[start |-> 0, end |-> 5, text |-> "hello"]>>
SegmentsB == <<>>
SegmentValues == {SegmentsA, SegmentsB}

GoodMarker == [isdict |-> TRUE, time |-> 2, content |-> "greeting"]
BadMarker == [isdict |-> FALSE, time |-> 0, content |-> ""]
GoodTag == [bindable |-> TRUE, text |-> "casual"]
BadTag == [bindable |-> FALSE, text |-> ""]

MetaBatches ==
    { [markers |-> <<>>, tags |-> <<>>],
      [markers |-> <<GoodMarker>>, tags |-> <<GoodTag>>],
      [markers |-> <<GoodMarker, GoodMarker>>, tags |-> <<GoodTag, GoodTag>>],
      [markers |-> <<GoodMarker, BadMarker>>, tags |-> <<GoodTag>>],
      [markers |-> <<GoodMarker>>, tags |-> <<GoodTag, BadTag>>] }

RecordDoneEvents ==
    {[event |-> "record_done", worker |-> RecordWorker,
      payload |-> [session_id |-> s, start_time |-> StartTimeOf(s), length |-> 1,
                   file_path |-> FilePathOf(StartTimeOf(s))]] : s \in SessionIds}

TranscribeDoneEvents ==
    {[event |-> "transcribe_done", worker |-> TranscribeWorker,
      payload |-> [session_id |-> s, segments_json |-> g]] :
        s \in SessionIds, g \in SegmentValues}
    \cup {[event |-> "transcribe_done", worker |-> TranscribeWorker,
           payload |-> [session_id |-> s]] : s \in SessionIds}

MetaDoneEvents ==
    {[event |-> "meta_done", worker |-> MetaGenWorker,
      payload |-> [session_id |-> s, markers |-> b.markers, tags |-> b.tags]] :
        s \in SessionIds, b \in MetaBatches}
    \cup {[event |-> "meta_done", worker |-> MetaGenWorker,
           payload |-> [markers |-> <<GoodMarker>>, tags |-> <<GoodTag>>]]}

ErrorEvents ==
    {[event |-> "error", worker |-> TranscribeWorker,
      payload |-> [session_id |-> s, error_message |-> "failed"]] : s \in SessionIds}
    \cup {[event |-> "error", worker |-> TranscribeWorker,
           payload |-> [error_message |-> "failed"]]}

JobRequestEvents ==
    { [event |-> "request_transcribe_job", worker |-> TranscribeWorker, payload |-> EmptyDict],
      [event |-> "request_metagen_job", worker |-> MetaGenWorker, payload |-> EmptyDict],
      [event |-> "request_metagen_job", payload |-> EmptyDict] }

ToggleEvent == [event |-> "toggle_ai_pause"]

UnknownEvents == { [event |-> "bogus", worker |-> TranscribeWorker, payload |-> EmptyDict] }

ChannelsIdle ==
    /\ is_running
    /\ result_queue = <<>>
    /\ \A w \in WorkerNames : command_queues[w] = <<>>

Deliver(message) ==
    /\ ChannelsIdle
    /\ ProcessMessage(message)
    /\ UNCHANGED <<is_running, result_queue>>
    /\ UNCHANGED procs

DeliverRecordDone == \E e \in RecordDoneEvents : Deliver(e)
DeliverTranscribeDone == \E e \in TranscribeDoneEvents : Deliver(e)
\* a transcribe_done with the one-segment transcript
DeliverSpokenTranscribeDone ==
    \E e \in TranscribeDoneEvents :
        /\ Get(e.payload, "segments_json", SegmentsB) = SegmentsA
        /\ Deliver(e)
DeliverMetaDone ==
    \E e \in MetaDoneEvents :
        /\ Cardinality(markers) + Len(e.payload.markers) <= MaxRows
        /\ Cardinality(tags) + Len(e.payload.tags) <= MaxRows
        /\ Deliver(e)
DeliverError == \E e \in ErrorEvents : Deliver(e)
DeliverJobRequest == \E e \in JobRequestEvents : Deliver(e)
DeliverToggle == Deliver(ToggleEvent)
DeliverUnknown == \E e \in UnknownEvents : Deliver(e)

\* the consumer of a command channel takes the command at its head
TakeCommand ==
    \E w \in WorkerNames :
        /\ command_queues[w] # <<>>
        /\ command_queues' = [command_queues EXCEPT ![w] = Tail(@)]
        /\ UNCHANGED <<store, ai_processing_paused, is_running, result_queue,
                       log_line, emitted, delivered>>
        /\ UNCHANGED procs

\* a meta_done as the metadata worker sends it when the model found nothing
\* to mark: the session reaches META_DONE without rows
EmptyMetaDoneEvents ==
    {e \in MetaDoneEvents : e.payload.markers = <<>> /\ e.payload.tags = <<>>}
DeliverEmptyMetaDone == \E e \in EmptyMetaDoneEvents : Deliver(e)

\* the store under any order of the events that write to it
NextStore ==
    \/ DeliverRecordDone
    \/ DeliverSpokenTranscribeDone
    \/ DeliverMetaDone
    \/ DeliverError

SpecStore == Init /\ [][NextStore]_vars

\* the dispatch under any order of events
NextEvents ==
    \/ DeliverRecordDone
    \/ DeliverTranscribeDone
    \/ DeliverEmptyMetaDone
    \/ DeliverError
    \/ DeliverJobRequest
    \/ DeliverToggle
    \/ DeliverUnknown
    \/ TakeCommand

SpecEvents == Init /\ [][NextEvents]_vars

(***************************************************************************)
(* Properties of the store and of the dispatch, checked with the           *)
(* coordinator under an arbitrary producer of events.                       *)
(***************************************************************************)
SidOf(message) == Get(Get(message, "payload", EmptyDict), "session_id", EmptyId)
RowsOf(table, sid) == {r \in table : r.session_id = sid}
Known(sid) == \E r \in recordings : r.id = sid
StatusOf(sid) == (CHOOSE r \in recordings : r.id = sid).status
PipelineStatus == {PENDING, TRANSCRIBE_DONE, META_DONE}

\* C3: the status of a session never moves backward in the order
\* PENDING < TRANSCRIBE_DONE < META_DONE, whatever event is handled; the
\* only change that is not forward is the move to ERROR.
C3_StatusNeverBackward ==
    [][\A r \in recordings : \A q \in recordings' :
          (q.id = r.id /\ r.status \in PipelineStatus /\ q.status \in PipelineStatus)
              => q.status >= r.status]_vars

\* C4: find_pending_transcribe_job returns a PENDING session of minimal
\* start_time among the PENDING sessions, and nothing exactly when no session
\* is PENDING.
C4_FindPendingTranscribeJob ==
    LET found == find_pending_transcribe_job(Db)
        pending == {r \in recordings : r.status = PENDING}
    IN  /\ (found = {}) <=> (pending = {})
        /\ \A j \in found :
              \E r \in pending :
                  /\ r.id = j[1]
                  /\ r.file_path = j[2]
                  /\ \A q \in pending : r.start_time <= q.start_time

\* two sessions are PENDING and a third row state, an earlier session that is
\* past PENDING, exists as well
C4_Witness ==
    \E r \in recordings : \E q \in recordings :
        /\ r.status = PENDING
        /\ q.status # PENDING
        /\ q.start_time < r.start_time
        /\ <<r.id, r.file_path>> \in find_pending_transcribe_job(Db)

\* C5: every reply put on the metadata worker's channel is standby exactly
\* when processing is paused or no session is at TRANSCRIBE_DONE, and is
\* otherwise the assignment of the TRANSCRIBE_DONE session of earliest
\* start_time with the segments its latest transcribe_done delivered.
C5_MetaJobReply ==
    [][Len(command_queues'[MetaGenWorker]) = Len(command_queues[MetaGenWorker]) + 1
        => LET c == command_queues'[MetaGenWorker][Len(command_queues'[MetaGenWorker])]
               done == {r \in recordings : r.status = TRANSCRIBE_DONE}
           IN  \/ c.task = "stop"
               \/ /\ c.task = "standby"
                  /\ ai_processing_paused \/ done = {}
               \/ /\ c.task = "generate_meta"
                  /\ ~ai_processing_paused
                  /\ \E r \in done :
                        /\ r.id = c.payload.session_id
                        /\ \A q \in done : r.start_time <= q.start_time
                        /\ \E d \in delivered :
                              d.id = r.id /\ d.segments = c.payload.segments_json]_vars

\* an assignment is waiting on the metadata worker's channel while two
\* sessions are at TRANSCRIBE_DONE, and it carries a non-empty transcript
C5_Witness ==
    /\ command_queues[MetaGenWorker] # <<>>
    /\ Head(command_queues[MetaGenWorker]).task = "generate_meta"
    /\ Head(command_queues[MetaGenWorker]).payload.segments_json = SegmentsA
    /\ Cardinality({r \in recordings : r.status = TRANSCRIBE_DONE}) >= 2

\* C6: the store holds exactly one recordings row per session id that a
\* record_done named, rows are never removed, and right after a record_done
\* is handled the status of its session is PENDING.
C6_RecordDoneStoresPending ==
    /\ [](\A r \in recordings : \A q \in recordings : r.id = q.id => r = q)
    /\ [][/\ \A r \in recordings : \E q \in recordings' : q.id = r.id
          /\ \A e \in RecordDoneEvents :
                ProcessMessage(e) =>
                    /\ Cardinality({q \in recordings' : q.id = SidOf(e)}) = 1
                    /\ \A q \in recordings' : q.id = SidOf(e) => q.status = PENDING]_vars

\* every session id has its row, one is PENDING again after it had markers
C6_Witness ==
    /\ \A s \in SessionIds : Cardinality({r \in recordings : r.id = s}) = 1
    /\ \E r \in recordings : r.status = PENDING /\ RowsOf(markers, r.id) # {}
    /\ \E r \in recordings : r.status = META_DONE

\* C7: a meta_done whose session id matches no recordings row leaves the
\* number of rows of markers, tags and recordings unchanged.
C7_UnknownSessionMetaDone ==
    [][\A e \in MetaDoneEvents :
          (SidOf(e) # EmptyId /\ ~Known(SidOf(e)) /\ ProcessMessage(e))
              => /\ Cardinality(markers') = Cardinality(markers)
                 /\ Cardinality(tags') = Cardinality(tags)
                 /\ Cardinality(recordings') = Cardinality(recordings)]_vars

\* the rows a first delivery of the meta_done leaves for its session
StoredOnce(e) ==
    /\ Known(SidOf(e))
    /\ StatusOf(SidOf(e)) = META_DONE
    /\ Cardinality(RowsOf(markers, SidOf(e))) = Len(e.payload.markers)
    /\ Cardinality(RowsOf(tags, SidOf(e))) = Len(e.payload.tags)

\* C8: delivering the same meta_done a second time leaves len(markers)
\* marker rows and len(tags) tag rows for the session, and the status
\* META_DONE.
C8_MetaDoneRetryNoDuplicates ==
    [][\A e \in MetaDoneEvents :
          (SidOf(e) # EmptyId /\ StoredOnce(e) /\ ProcessMessage(e))
              => /\ Cardinality(RowsOf(markers', SidOf(e))) = Len(e.payload.markers)
                 /\ Cardinality(RowsOf(tags', SidOf(e))) = Len(e.payload.tags)
                 /\ \A q \in recordings' : q.id = SidOf(e) => q.status = META_DONE]_vars

BatchFails(e) ==
    \/ \E i \in 1..Len(e.payload.markers) : ~e.payload.markers[i].isdict
    \/ \E i \in 1..Len(e.payload.tags) : ~e.payload.tags[i].bindable

\* what every handling of a meta_done leaves alone
MetaDoneStep ==
    /\ log_line' \in {NoLog, <<"handler_error", "meta_done">>}
    /\ UNCHANGED <<transcribes, command_queues, ai_processing_paused, delivered>>

\* C9: handling a meta_done is all-or-nothing: when an insert of the batch
\* fails the store is left as it was, otherwise every marker and tag of the
\* batch is stored and the status of the session is META_DONE, in one step.
C9_MetaDoneAllOrNothing ==
    [][\A e \in MetaDoneEvents :
          (SidOf(e) # EmptyId /\ MetaDoneStep /\ ProcessMessage(e)) =>
              IF BatchFails(e)
              THEN UNCHANGED store
              ELSE /\ markers \subseteq markers'
                   /\ tags \subseteq tags'
                   /\ Cardinality(markers') = Cardinality(markers) + Len(e.payload.markers)
                   /\ Cardinality(tags') = Cardinality(tags) + Len(e.payload.tags)
                   /\ \A r \in markers' \ markers : r.session_id = SidOf(e)
                   /\ \A r \in tags' \ tags : r.session_id = SidOf(e)
                   /\ \A q \in recordings' : q.id = SidOf(e) => q.status = META_DONE]_vars

\* a batch has just failed for a transcribed session and nothing of it is stored
C9_Witness ==
    /\ log_line = <<"handler_error", "meta_done">>
    /\ markers = {} /\ tags = {}
    /\ \E r \in recordings : r.status = TRANSCRIBE_DONE

\* C10: every session id that owns a marker row or a tag row is the id of a
\* stored session whose status is META_DONE.
C10_MetadataOnlyAtMetaDone ==
    \A m \in markers \cup tags :
        \E r \in recordings : r.id = m.session_id /\ r.status = META_DONE

(***************************************************************************)
(* The whole program: the three worker processes, the listener thread, the *)
(* GUI thread and BackendApp.stop().                                       *)
(***************************************************************************)
\* chunks of one capture segment, int(RATE / CHUNK * RECORD_SECONDS) in the program
MaxChunks == 2
\* events put on result_queue and not yet taken by the listener
MaxQueue == 2

Event(name, worker_name, payload) ==
    [event |-> name, worker |-> worker_name, payload |-> payload]

\* result_queue.put(message)
PutEvent(m) ==
    /\ Len(result_queue) < MaxQueue
    /\ result_queue' = Append(result_queue, m)

Alive(w) == pc[w] \notin {"exited", "terminated"}

\* what a worker process does not touch
WorkerFrame ==
    UNCHANGED <<store, ai_processing_paused, is_running, log_line, emitted, delivered,
                db_open, listener_pc, stop_pc, is_recording_paused, status_labels, restart_pc>>

\* the batches the metadata worker builds from a parsed MetaResponse
WorkerBatches ==
    { [markers |-> <<>>, tags |-> <<>>],
      [markers |-> <<GoodMarker>>, tags |-> <<GoodTag>>] }

---------------------------------------------------------------------------
\* transcribe_worker: loading the Whisper model
transcribe_worker_load ==
    /\ pc[TranscribeWorker] = "start"
    /\ \/ /\ pc' = [pc EXCEPT ![TranscribeWorker] = "request"]
          /\ UNCHANGED result_queue
       \/ /\ PutEvent(Event("error", TranscribeWorker, [error_message |-> "load"]))
          /\ pc' = [pc EXCEPT ![TranscribeWorker] = "exited"]
    /\ UNCHANGED <<command_queues, job, rec, next_session>>
    /\ WorkerFrame

\* a worker that asks for its next job again while it still executes one
transcribe_worker_request_early ==
    /\ pc[TranscribeWorker] \in {"request", "transcribe"}
    /\ PutEvent(Event("request_transcribe_job", TranscribeWorker, EmptyDict))
    /\ pc' = [pc EXCEPT ![TranscribeWorker] =
                 IF pc[TranscribeWorker] = "request" THEN "wait" ELSE @]
    /\ UNCHANGED <<command_queues, job, rec, next_session>>
    /\ WorkerFrame

\* top of the loop: result_queue.put(request_transcribe_job)
transcribe_worker_request ==
    /\ pc[TranscribeWorker] = "request"
    /\ PutEvent(Event("request_transcribe_job", TranscribeWorker, EmptyDict))
    /\ pc' = [pc EXCEPT ![TranscribeWorker] = "wait"]
    /\ UNCHANGED <<command_queues, job, rec, next_session>>
    /\ WorkerFrame

\* command = command_queue.get() and the branch on its task
transcribe_worker_command ==
    /\ pc[TranscribeWorker] = "wait"
    /\ command_queues[TranscribeWorker] # <<>>
    /\ LET command == Head(command_queues[TranscribeWorker])
           task == Get(command, "task", "")
           payload == Get(command, "payload", EmptyDict)
       IN  /\ command_queues' = [command_queues EXCEPT ![TranscribeWorker] = Tail(@)]
           /\ CASE task = "transcribe" ->
                    /\ PutEvent(Event("transcribe_started", TranscribeWorker,
                                      [session_id |-> payload.session_id]))
                    /\ job' = [job EXCEPT ![TranscribeWorker] = payload]
                    /\ pc' = [pc EXCEPT ![TranscribeWorker] = "transcribe"]
                [] task = "standby" ->
                    /\ PutEvent(Event("transcribe_idle", TranscribeWorker, EmptyDict))
                    /\ pc' = [pc EXCEPT ![TranscribeWorker] = "sleep"]
                    /\ UNCHANGED job
                [] task = "stop" ->
                    /\ PutEvent(Event("transcribe_idle", TranscribeWorker, EmptyDict))
                    /\ pc' = [pc EXCEPT ![TranscribeWorker] = "exited"]
                    /\ UNCHANGED job
                [] OTHER ->
                    /\ PutEvent(Event("transcribe_idle", TranscribeWorker, EmptyDict))
                    /\ pc' = [pc EXCEPT ![TranscribeWorker] = "request"]
                    /\ UNCHANGED job
    /\ UNCHANGED <<rec, next_session>>
    /\ WorkerFrame

\* a worker that drops the job without reporting anything
transcribe_worker_transcribe_silent ==
    /\ pc[TranscribeWorker] = "transcribe"
    /\ pc' = [pc EXCEPT ![TranscribeWorker] = "request"]
    /\ UNCHANGED <<result_queue, command_queues, job, rec, next_session>>
    /\ WorkerFrame

\* model.transcribe and the report: transcribe_done, or error when it raised
transcribe_worker_transcribe ==
    /\ pc[TranscribeWorker] = "transcribe"
    /\ \/ \E g \in SegmentValues :
              /\ PutEvent(Event("transcribe_done", TranscribeWorker,
                                [session_id |-> job[TranscribeWorker].session_id,
                                 segments_json |-> g]))
              /\ pc' = [pc EXCEPT ![TranscribeWorker] = "report_idle"]
       \/ /\ PutEvent(Event("error", TranscribeWorker, [error_message |-> "transcribe"]))
          /\ pc' = [pc EXCEPT ![TranscribeWorker] = "error_sleep"]
    /\ UNCHANGED <<command_queues, job, rec, next_session>>
    /\ WorkerFrame

\* result_queue.put(transcribe_idle) after transcribe_done
transcribe_worker_idle ==
    /\ pc[TranscribeWorker] = "report_idle"
    /\ PutEvent(Event("transcribe_idle", TranscribeWorker, EmptyDict))
    /\ pc' = [pc EXCEPT ![TranscribeWorker] = "request"]
    /\ UNCHANGED <<command_queues, job, rec, next_session>>
    /\ WorkerFrame

\* time.sleep(wait_seconds) and time.sleep(10) end
transcribe_worker_wake ==
    /\ pc[TranscribeWorker] \in {"sleep", "error_sleep"}
    /\ pc' = [pc EXCEPT ![TranscribeWorker] = "request"]
    /\ UNCHANGED <<result_queue, command_queues, job, rec, next_session>>
    /\ WorkerFrame

---------------------------------------------------------------------------
\* metagen_worker: genai.Client(api_key)
metagen_worker_start ==
    /\ pc[MetaGenWorker] = "start"
    /\ \/ /\ pc' = [pc EXCEPT ![MetaGenWorker] = "request"]
          /\ UNCHANGED result_queue
       \/ /\ PutEvent(Event("error", "MetagenWorker", [error_message |-> "client"]))
          /\ pc' = [pc EXCEPT ![MetaGenWorker] = "exited"]
    /\ UNCHANGED <<command_queues, job, rec, next_session>>
    /\ WorkerFrame

metagen_worker_request ==
    /\ pc[MetaGenWorker] = "request"
    /\ PutEvent(Event("request_metagen_job", MetaGenWorker, EmptyDict))
    /\ pc' = [pc EXCEPT ![MetaGenWorker] = "wait"]
    /\ UNCHANGED <<command_queues, job, rec, next_session>>
    /\ WorkerFrame

metagen_worker_command ==
    /\ pc[MetaGenWorker] = "wait"
    /\ command_queues[MetaGenWorker] # <<>>
    /\ LET command == Head(command_queues[MetaGenWorker])
           task == Get(command, "task", "")
           payload == Get(command, "payload", EmptyDict)
       IN  /\ command_queues' = [command_queues EXCEPT ![MetaGenWorker] = Tail(@)]
           /\ CASE task = "generate_meta" ->
                    /\ job' = [job EXCEPT ![MetaGenWorker] = payload]
                    /\ pc' = [pc EXCEPT ![MetaGenWorker] = "generate"]
                [] task = "standby" ->
                    /\ pc' = [pc EXCEPT ![MetaGenWorker] = "sleep"]
                    /\ UNCHANGED job
                [] task = "stop" ->
                    /\ pc' = [pc EXCEPT ![MetaGenWorker] = "exited"]
                    /\ UNCHANGED job
                [] OTHER ->
                    /\ pc' = [pc EXCEPT ![MetaGenWorker] = "request"]
                    /\ UNCHANGED job
    /\ UNCHANGED <<result_queue, rec, next_session>>
    /\ WorkerFrame

\* client.models.generate_content and the report: meta_done, or error
metagen_worker_generate ==
    /\ pc[MetaGenWorker] = "generate"
    /\ \/ \E b \in WorkerBatches :
              /\ PutEvent(Event("meta_done", MetaGenWorker,
                                [session_id |-> job[MetaGenWorker].session_id,
                                 markers |-> b.markers, tags |-> b.tags]))
              /\ pc' = [pc EXCEPT ![MetaGenWorker] = "request"]
       \/ /\ PutEvent(Event("error", MetaGenWorker, [error_message |-> "generate"]))
          /\ pc' = [pc EXCEPT ![MetaGenWorker] = "error_sleep"]
    /\ UNCHANGED <<command_queues, job, rec, next_session>>
    /\ WorkerFrame

metagen_worker_wake ==
    /\ pc[MetaGenWorker] \in {"sleep", "error_sleep"}
    /\ pc' = [pc EXCEPT ![MetaGenWorker] = "request"]
    /\ UNCHANGED <<result_queue, command_queues, job, rec, next_session>>
    /\ WorkerFrame

---------------------------------------------------------------------------
\* record_worker: PyAudio() and pa.open(); an exception here is outside the
\* try block, so the process dies without an event
record_worker_open ==
    /\ pc[RecordWorker] = "start"
    /\ \/ pc' = [pc EXCEPT ![RecordWorker] = "top"]
       \/ pc' = [pc EXCEPT ![RecordWorker] = "exited"]
    /\ UNCHANGED <<result_queue, command_queues, job, rec, next_session>>
    /\ WorkerFrame

\* top of `while recording` when paused: record_paused, then command_queue.get()
record_worker_paused ==
    /\ pc[RecordWorker] = "top"
    /\ rec.pause
    /\ PutEvent(Event("record_paused", RecordWorker, EmptyDict))
    /\ pc' = [pc EXCEPT ![RecordWorker] = "paused"]
    /\ UNCHANGED <<command_queues, job, rec, next_session>>
    /\ WorkerFrame

\* the mute flags after command cmd: mic_mute, mic_unmute, vc_mute and
\* vc_unmute set one flag, any other command leaves both
MuteFlags(r, cmd) ==
    [r EXCEPT !.mic_mute = IF cmd = "mic_mute" THEN TRUE
                           ELSE IF cmd = "mic_unmute" THEN FALSE ELSE @,
              !.vc_mute = IF cmd = "vc_mute" THEN TRUE
                          ELSE IF cmd = "vc_unmute" THEN FALSE ELSE @]

\* a paused branch without `continue`: a command other than resume and stop
\* falls through to the start of a segment
record_worker_paused_command_fallthrough ==
    /\ pc[RecordWorker] = "paused"
    /\ command_queues[RecordWorker] # <<>>
    /\ LET cmd == Get(Head(command_queues[RecordWorker]), "task", "")
       IN  /\ command_queues' = [command_queues EXCEPT ![RecordWorker] = Tail(@)]
           /\ CASE cmd = "resume" ->
                    /\ rec' = [rec EXCEPT !.pause = FALSE]
                    /\ PutEvent(Event("record_resumed", RecordWorker, EmptyDict))
                    /\ pc' = [pc EXCEPT ![RecordWorker] = "top"]
                [] cmd = "stop" ->
                    /\ rec' = [rec EXCEPT !.recording = FALSE]
                    /\ PutEvent(Event("record_idle", RecordWorker, EmptyDict))
                    /\ pc' = [pc EXCEPT ![RecordWorker] = "exited"]
                [] OTHER ->
                    /\ rec' = [MuteFlags(rec, cmd) EXCEPT !.pause = FALSE]
                    /\ pc' = [pc EXCEPT ![RecordWorker] = "top"]
                    /\ UNCHANGED result_queue
    /\ UNCHANGED <<job, next_session>>
    /\ WorkerFrame

\* the command taken while paused
record_worker_paused_command ==
    /\ pc[RecordWorker] = "paused"
    /\ command_queues[RecordWorker] # <<>>
    /\ LET cmd == Get(Head(command_queues[RecordWorker]), "task", "")
       IN  /\ command_queues' = [command_queues EXCEPT ![RecordWorker] = Tail(@)]
           /\ CASE cmd = "resume" ->
                    /\ rec' = [rec EXCEPT !.pause = FALSE]
                    /\ PutEvent(Event("record_resumed", RecordWorker, EmptyDict))
                    /\ pc' = [pc EXCEPT ![RecordWorker] = "top"]
                [] cmd = "stop" ->
                    /\ rec' = [rec EXCEPT !.recording = FALSE]
                    /\ PutEvent(Event("record_idle", RecordWorker, EmptyDict))
                    /\ pc' = [pc EXCEPT ![RecordWorker] = "exited"]
                [] OTHER ->            \* a mute command or an unknown one: continue
                    /\ rec' = MuteFlags(rec, cmd)
                    /\ pc' = [pc EXCEPT ![RecordWorker] = "top"]
                    /\ UNCHANGED result_queue
    /\ UNCHANGED <<job, next_session>>
    /\ WorkerFrame

\* start of a segment: a new session id, the clock, record_started
record_worker_start_segment ==
    /\ pc[RecordWorker] = "top"
    /\ ~rec.pause
    /\ next_session < MaxSessions
    /\ next_session' = next_session + 1
    /\ rec' = [rec EXCEPT !.session_id = next_session', !.start = next_session',
                          !.buffer = 0]
    /\ PutEvent(Event("record_started", RecordWorker, [session_id |-> next_session']))
    /\ pc' = [pc EXCEPT ![RecordWorker] = "recording"]
    /\ UNCHANGED <<command_queues, job>>
    /\ WorkerFrame

\* a chunk loop that reads the command channel only after the last chunk of
\* the segment
record_worker_chunk_boundary ==
    /\ pc[RecordWorker] = "recording"
    /\ LET chunks == rec.buffer + 1
           last == chunks = MaxChunks
           cmd == IF ~last \/ command_queues[RecordWorker] = <<>> THEN "Empty"
                  ELSE Get(Head(command_queues[RecordWorker]), "task", "")
       IN  /\ command_queues' = [command_queues EXCEPT ![RecordWorker] =
                                    IF ~last \/ @ = <<>> THEN @ ELSE Tail(@)]
           /\ CASE cmd = "pause" ->
                    /\ rec' = [rec EXCEPT !.buffer = chunks, !.pause = TRUE]
                    /\ pc' = [pc EXCEPT ![RecordWorker] = "segment_end"]
                    /\ UNCHANGED result_queue
                [] cmd = "stop" ->
                    /\ rec' = [rec EXCEPT !.buffer = chunks, !.recording = FALSE]
                    /\ PutEvent(Event("record_idle", RecordWorker, EmptyDict))
                    /\ pc' = [pc EXCEPT ![RecordWorker] = "segment_end"]
                [] OTHER ->
                    /\ rec' = [MuteFlags(rec, cmd) EXCEPT !.buffer = chunks]
                    /\ pc' = [pc EXCEPT ![RecordWorker] =
                                 IF last THEN "segment_end" ELSE @]
                    /\ UNCHANGED result_queue
    /\ UNCHANGED <<job, next_session>>
    /\ WorkerFrame

\* one pass of the chunk loop: a chunk is appended, then get_nowait()
record_worker_chunk ==
    /\ pc[RecordWorker] = "recording"
    /\ LET cmd == IF command_queues[RecordWorker] = <<>> THEN "Empty"
                  ELSE Get(Head(command_queues[RecordWorker]), "task", "")
           chunks == rec.buffer + 1
       IN  /\ command_queues' = [command_queues EXCEPT ![RecordWorker] =
                                    IF @ = <<>> THEN @ ELSE Tail(@)]
           /\ CASE cmd = "pause" ->
                    /\ rec' = [rec EXCEPT !.buffer = chunks, !.pause = TRUE]
                    /\ pc' = [pc EXCEPT ![RecordWorker] = "segment_end"]
                    /\ UNCHANGED result_queue
                [] cmd = "stop" ->
                    /\ rec' = [rec EXCEPT !.buffer = chunks, !.recording = FALSE]
                    /\ PutEvent(Event("record_idle", RecordWorker, EmptyDict))
                    /\ pc' = [pc EXCEPT ![RecordWorker] = "segment_end"]
                [] OTHER ->            \* Empty, a mute command or an unknown one
                    /\ rec' = [MuteFlags(rec, cmd) EXCEPT !.buffer = chunks]
                    /\ pc' = [pc EXCEPT ![RecordWorker] =
                                 IF chunks = MaxChunks THEN "segment_end" ELSE @]
                    /\ UNCHANGED result_queue
    /\ UNCHANGED <<job, next_session>>
    /\ WorkerFrame

\* the wave file is written and record_done is put
record_worker_done ==
    /\ pc[RecordWorker] = "segment_end"
    /\ PutEvent(Event("record_done", RecordWorker,
                      [session_id |-> rec.session_id, start_time |-> rec.start,
                       length |-> rec.buffer, file_path |-> FilePathOf(rec.start)]))
    /\ pc' = [pc EXCEPT ![RecordWorker] = "segment_idle"]
    /\ UNCHANGED <<command_queues, job, rec, next_session>>
    /\ WorkerFrame

\* record_idle after record_done, then the test of `while recording`
record_worker_idle ==
    /\ pc[RecordWorker] = "segment_idle"
    /\ PutEvent(Event("record_idle", RecordWorker, EmptyDict))
    /\ pc' = [pc EXCEPT ![RecordWorker] = IF rec.recording THEN "top" ELSE "exited"]
    /\ UNCHANGED <<command_queues, job, rec, next_session>>
    /\ WorkerFrame

---------------------------------------------------------------------------
\* a loop that does not test is_running
listen_check_forever ==
    /\ listener_pc = "top"
    /\ listener_pc' = "get"
    /\ log_line' = NoLog
    /\ emitted' = <<>>
    /\ UNCHANGED <<store, ai_processing_paused, is_running, result_queue, command_queues,
                   delivered, db_open, pc, job, rec, next_session, stop_pc,
                   is_recording_paused, status_labels, restart_pc>>

\* EventListener.listen: the test of `while self.is_running`
listen_check ==
    /\ listener_pc = "top"
    /\ listener_pc' = IF is_running THEN "get" ELSE "finished"
    /\ log_line' = IF is_running THEN NoLog ELSE <<"listener", "finished">>
    /\ emitted' = <<>>
    /\ UNCHANGED <<store, ai_processing_paused, is_running, result_queue, command_queues,
                   delivered, db_open, pc, job, rec, next_session, stop_pc,
                   is_recording_paused, status_labels, restart_pc>>

\* a listener that takes the newest message of the channel instead of the oldest
listen_get_newest ==
    /\ listener_pc = "get"
    /\ result_queue # <<>>
    /\ result_queue' = SubSeq(result_queue, 1, Len(result_queue) - 1)
    /\ ProcessMessage(result_queue[Len(result_queue)])
    /\ listener_pc' = "top"
    /\ UNCHANGED <<is_running, db_open, pc, job, rec, next_session, stop_pc,
                   is_recording_paused, status_labels, restart_pc>>

\* result_queue.get(timeout=1) returned a message: one iteration of the loop
\* message.get('event') is outside the try that guards the handler, and the
\* outer try catches Empty only: a message that is not a dict raises
\* AttributeError out of listen()
listen_get ==
    /\ listener_pc = "get"
    /\ result_queue # <<>>
    /\ result_queue' = Tail(result_queue)
    /\ IF IsDict(Head(result_queue))
       THEN /\ ProcessMessage(Head(result_queue))
            /\ listener_pc' = "top"
       ELSE /\ listener_pc' = "raised"
            /\ UNCHANGED <<store, ai_processing_paused, command_queues, log_line, emitted,
                           delivered>>
    /\ UNCHANGED <<is_running, db_open, pc, job, rec, next_session, stop_pc,
                   is_recording_paused, status_labels, restart_pc>>

\* result_queue.get(timeout=1) raised Empty
listen_timeout ==
    /\ listener_pc = "get"
    /\ result_queue = <<>>
    /\ listener_pc' = "top"
    /\ UNCHANGED <<store, ai_processing_paused, is_running, result_queue, command_queues,
                   log_line, emitted, delivered, db_open, pc, job, rec, next_session, stop_pc,
                   is_recording_paused, status_labels, restart_pc>>

---------------------------------------------------------------------------
\* the window exists until the user confirmed quitting
WindowOpen == stop_pc["quit"] = "idle"

\* MainWindow.toggle_ai_pause
gui_toggle_ai_pause ==
    /\ WindowOpen
    /\ \A i \in DOMAIN result_queue : result_queue[i] # ToggleEvent
    /\ PutEvent(ToggleEvent)
    /\ UNCHANGED <<store, ai_processing_paused, is_running, command_queues, log_line, emitted,
                   delivered>>
    /\ UNCHANGED procs

\* MainWindow.toggle_recording_pause
gui_toggle_recording_pause ==
    /\ WindowOpen
    /\ command_queues[RecordWorker] = <<>>
    /\ is_recording_paused' = ~is_recording_paused
    /\ UNCHANGED <<status_labels, restart_pc>>
    /\ command_queues' = [command_queues EXCEPT ![RecordWorker] =
           Append(@, [task |-> IF is_recording_paused' THEN "pause" ELSE "resume"])]
    /\ UNCHANGED <<store, ai_processing_paused, is_running, result_queue, log_line, emitted,
                   delivered, db_open, listener_pc, pc, job, rec, next_session, stop_pc>>

---------------------------------------------------------------------------
\* BackendApp.stop() up to the first join: is_running cleared, stop put on
\* every command channel.  "quit" is QuitThread, "finally" the end of run().
stop_begin(c) ==
    /\ stop_pc[c] = "idle"
    /\ c = "finally" => listener_pc \in {"finished", "raised"}
    /\ is_running' = FALSE
    /\ command_queues' = [w \in WorkerNames |-> Append(command_queues[w], Stop)]
    /\ stop_pc' = [stop_pc EXCEPT ![c] = "join_record"]
    /\ UNCHANGED <<store, ai_processing_paused, result_queue, log_line, emitted, delivered,
                   db_open, listener_pc, pc, job, rec, next_session, is_recording_paused,
                   status_labels, restart_pc>>

\* join(timeout=10) of the capture worker returned: if the process is still
\* alive it is terminated
stop_join_record(c) ==
    /\ stop_pc[c] = "join_record"
    /\ pc' = [pc EXCEPT ![RecordWorker] = IF Alive(RecordWorker) THEN "terminated" ELSE @]
    /\ stop_pc' = [stop_pc EXCEPT ![c] = "terminate_ai"]
    /\ UNCHANGED <<store, ai_processing_paused, is_running, result_queue, command_queues,
                   log_line, emitted, delivered, db_open, listener_pc, job, rec, next_session,
                   is_recording_paused, status_labels, restart_pc>>

\* the rest of the loop over self.workers, where nothing blocks: an AI worker
\* still alive is terminated; then self.db_manager.close()
stop_terminate_and_close(c) ==
    /\ stop_pc[c] = "terminate_ai"
    /\ pc' = [w \in WorkerNames |->
                 IF w \in AIWorkers /\ Alive(w) THEN "terminated" ELSE pc[w]]
    /\ db_open' = FALSE
    /\ stop_pc' = [stop_pc EXCEPT ![c] = "returned"]
    /\ UNCHANGED <<store, ai_processing_paused, is_running, result_queue, command_queues,
                   log_line, emitted, delivered, listener_pc, job, rec, next_session,
                   is_recording_paused, status_labels, restart_pc>>

transcribe_worker ==
    \/ transcribe_worker_load
    \/ transcribe_worker_request
    \/ transcribe_worker_command
    \/ transcribe_worker_transcribe
    \/ transcribe_worker_idle
    \/ transcribe_worker_wake

metagen_worker ==
    \/ metagen_worker_start
    \/ metagen_worker_request
    \/ metagen_worker_command
    \/ metagen_worker_generate
    \/ metagen_worker_wake

record_worker ==
    \/ record_worker_open
    \/ record_worker_paused
    \/ record_worker_paused_command
    \/ record_worker_start_segment
    \/ record_worker_chunk
    \/ record_worker_done
    \/ record_worker_idle

listen == listen_check \/ listen_get \/ listen_timeout

stop ==
    \E c \in StopCallers :
        \/ stop_begin(c)
        \/ stop_join_record(c)
        \/ stop_terminate_and_close(c)

Next ==
    \/ transcribe_worker
    \/ metagen_worker
    \/ record_worker
    \/ listen
    \/ gui_toggle_ai_pause
    \/ gui_toggle_recording_pause
    \/ stop

Spec == Init /\ [][Next]_vars

(***************************************************************************)
(* The job pipeline: the two AI workers, the listener, the AI pause button *)
(* and shutdown, with the capture worker seen only through the record_done *)
(* it reports for each segment (the user never pauses the capture).        *)
(***************************************************************************)
\* record_worker, one whole segment: a new session id, the clock, the chunk
\* loop run to its end, record_done
capture_segment ==
    /\ pc[RecordWorker] = "start"
    /\ next_session < MaxSegments
    /\ next_session' = next_session + 1
    /\ PutEvent(Event("record_done", RecordWorker,
                      [session_id |-> next_session', start_time |-> next_session',
                       length |-> MaxChunks, file_path |-> FilePathOf(next_session')]))
    /\ UNCHANGED <<command_queues, job, rec, pc>>
    /\ WorkerFrame

NextPipeline ==
    \/ transcribe_worker
    \/ metagen_worker
    \/ capture_segment
    \/ listen
    \/ gui_toggle_ai_pause
    \/ stop

SpecPipeline == Init /\ [][NextPipeline]_vars

(***************************************************************************)
(* Properties of the job pipeline (SpecPipeline).                          *)
(***************************************************************************)
RequestEventOf(w) ==
    IF w = TranscribeWorker THEN "request_transcribe_job" ELSE "request_metagen_job"

JobTaskOf(w) == IF w = TranscribeWorker THEN "transcribe" ELSE "generate_meta"

\* the job requests of worker w that the listener has not yet taken
Requests(w) ==
    Cardinality({i \in DOMAIN result_queue :
                    /\ Get(result_queue[i], "event", "") = RequestEventOf(w)
                    /\ Get(result_queue[i], "worker", "") = w})

\* the replies on the channel of worker w that it has not yet taken
Replies(w) ==
    Cardinality({i \in DOMAIN command_queues[w] : command_queues[w][i].task # "stop"})

\* the listener takes a job request of worker w in this step
TakesRequestOf(w) ==
    /\ listener_pc = "get"
    /\ result_queue # <<>>
    /\ Get(Head(result_queue), "event", "") = RequestEventOf(w)
    /\ Get(Head(result_queue), "worker", "") = w
    /\ result_queue' = Tail(result_queue)

\* C1: every job request of a registered worker is answered with exactly one
\* command on that worker's channel, and the command is an assignment, standby
\* or stop.  The handler appends exactly one assignment or standby to the
\* channel of the requesting worker and nothing to the other channel (it raises
\* only when it queries the closed store, and then the worker has been
\* terminated); a live
\* worker has one request or one reply outstanding exactly while it waits for
\* its command, and none otherwise; once the coordinator stops listening, a
\* stop is on the channel of every live worker.
C1_OneReplyPerRequest ==
    /\ [](\A w \in AIWorkers :
            /\ \A i \in DOMAIN command_queues[w] :
                   command_queues[w][i].task \in {JobTaskOf(w), "standby", "stop"}
            /\ Alive(w) => Requests(w) + Replies(w) = IF pc[w] = "wait" THEN 1 ELSE 0
            /\ Alive(w) /\ ~is_running =>
                   \E i \in DOMAIN command_queues[w] : command_queues[w][i] = Stop)
    /\ [][\A w \in AIWorkers :
            TakesRequestOf(w) =>
                IF db_open \/ ai_processing_paused
                THEN /\ Len(command_queues'[w]) = Len(command_queues[w]) + 1
                     /\ SubSeq(command_queues'[w], 1, Len(command_queues[w]))
                            = command_queues[w]
                     /\ command_queues'[w][Len(command_queues'[w])].task
                            \in {JobTaskOf(w), "standby"}
                     /\ \A v \in WorkerNames \ {w} :
                            command_queues'[v] = command_queues[v]
                ELSE ~Alive(w) /\ UNCHANGED command_queues]_vars

\* both workers wait with their one reply on the channel: an assignment for
\* the transcription worker, standby for the metadata worker
C1_Witness ==
    /\ pc[TranscribeWorker] = "wait"
    /\ Len(command_queues[TranscribeWorker]) = 1
    /\ command_queues[TranscribeWorker][1].task = "transcribe"
    /\ pc[MetaGenWorker] = "wait"
    /\ command_queues[MetaGenWorker] = <<Standby>>

\* the assignments of session s on the channel of worker w
Assignments(w, s) ==
    Cardinality({i \in DOMAIN command_queues[w] :
                    /\ command_queues[w][i].task = JobTaskOf(w)
                    /\ command_queues[w][i].payload.session_id = s})

\* worker w executes the job of session s
Executing(w, s) ==
    /\ pc[w] \in {"transcribe", "generate"}
    /\ job[w].session_id = s

\* C2: for every session and job class, the assignments issued and not yet
\* finished are at most one: an assignment of the session waits on the
\* worker's channel, or the worker executes it, never both and never twice.
C2_AtMostOneAssignment ==
    \A w \in AIWorkers : \A s \in 1..MaxSegments :
        Assignments(w, s) + (IF Executing(w, s) THEN 1 ELSE 0) <= 1

\* the metadata job of a session is executing (after its transcription job
\* was assigned, executed and reported)
C2_Witness ==
    /\ \E s \in 1..MaxSegments : Executing(MetaGenWorker, s)
    /\ pc[TranscribeWorker] = "wait"

(***************************************************************************)
(* Further properties of the store (SpecStore).                            *)
(***************************************************************************)
\* C11: every transcript row refers to an existing session row: a
\* transcribe_done for a session id without a recordings row stores no
\* transcript.
C11_TranscriptRefersToSession ==
    \A t \in transcribes : \E r \in recordings : r.id = t.id

(***************************************************************************)
(* Further properties of the dispatch (SpecEvents).                        *)
(***************************************************************************)
Registered(e) == Get(e, "worker", "") \in DOMAIN command_queues

\* C12: while ai_processing_paused is true, the handling of a job request of
\* a registered worker appends standby to that worker's channel and changes
\* no other channel, and no step puts an assignment on any channel.
C12_PausedMeansStandby ==
    [][ai_processing_paused =>
          /\ \A w \in WorkerNames : \A i \in DOMAIN command_queues'[w] :
                 i > Len(command_queues[w]) =>
                     command_queues'[w][i].task \notin {"transcribe", "generate_meta"}
          /\ \A e \in JobRequestEvents :
                 (Registered(e) /\ ProcessMessage(e)) =>
                     command_queues' =
                         [command_queues EXCEPT ![e.worker] = Append(@, Standby)]]_vars

\* processing is paused, a session is PENDING and another is at
\* TRANSCRIBE_DONE, and the request just handled was answered with standby
C12_Witness ==
    /\ ai_processing_paused
    /\ \E r \in recordings : r.status = PENDING
    /\ \E r \in recordings : r.status = TRANSCRIBE_DONE
    /\ command_queues[MetaGenWorker] = <<Standby>>

\* the replies the dispatch owes worker w in the current state of the store
\* and of the pause flag
DispatchReplies(w) ==
    IF ai_processing_paused THEN {Standby}
    ELSE IF w = TranscribeWorker
    THEN IF find_pending_transcribe_job(Db) = {} THEN {Standby}
         ELSE {AssignTranscribe(j) : j \in find_pending_transcribe_job(Db)}
    ELSE IF find_pending_meta_job(Db) = {} THEN {Standby}
         ELSE {AssignMeta(j) : j \in find_pending_meta_job(Db)}

\* C13: handling toggle_ai_pause flips the pause flag and changes neither the
\* store nor a channel, so two toggles restore the flag and every eligible
\* session stays eligible; the answer to a job request depends on the flag
\* and the store only: standby while paused, and after unpausing the next
\* job of the store (standby if there is none), put once; the request does
\* not change the store.
C13_ToggleTwiceRestoresDispatch ==
    [][/\ ProcessMessage(ToggleEvent) =>
            /\ ai_processing_paused' = ~ai_processing_paused
            /\ UNCHANGED <<store, command_queues>>
       /\ \A e \in JobRequestEvents :
            (Registered(e) /\ ProcessMessage(e)) =>
                /\ UNCHANGED <<store, ai_processing_paused>>
                /\ \E c \in DispatchReplies(e.worker) :
                       command_queues' =
                           [command_queues EXCEPT ![e.worker] = Append(@, c)]]_vars

\* processing has just been resumed after a pause while a session is PENDING
\* and another is at TRANSCRIBE_DONE
C13_Witness ==
    /\ log_line = <<"ai_pause", "resumed">>
    /\ ~ai_processing_paused
    /\ \E r \in recordings : r.status = PENDING
    /\ \E r \in recordings : r.status = TRANSCRIBE_DONE

(***************************************************************************)
(* The listener thread under an arbitrary producer: any of the messages    *)
(* below may be put on result_queue at any time, well-formed or not.       *)
(***************************************************************************)
\* a message that is not a dict
NotADict == [isdict |-> FALSE]

\* a record_done whose payload lacks start_time, length and file_path
MalformedRecordDone ==
    [event |-> "record_done", worker |-> RecordWorker, payload |-> [session_id |-> 1]]

ListenerInputs ==
    RecordDoneEvents \cup UnknownEvents \cup {MalformedRecordDone, NotADict, ToggleEvent}

PutAny ==
    /\ \E m \in ListenerInputs : PutEvent(m)
    /\ UNCHANGED <<store, ai_processing_paused, is_running, command_queues, log_line, emitted,
                   delivered>>
    /\ UNCHANGED procs

NextListener == PutAny \/ listen

SpecListener == Init /\ [][NextListener]_vars

\* the listener takes the message at the head of result_queue in this step
TakesMessage ==
    /\ listener_pc = "get"
    /\ result_queue # <<>>
    /\ result_queue' = Tail(result_queue)

\* C14: whatever message the listener takes from the event channel, malformed
\* or not, the loop does not terminate: an exception of the iteration is
\* caught and logged and the listener returns to the top of its loop, where
\* it goes on to take the next message.
C14_ListenerSurvivesAnyMessage ==
    [][TakesMessage => listener_pc' = "top"]_vars

\* C15: an event whose name has no registered handler is logged and ignored:
\* the store, the pause flag and every command channel are unchanged, and
\* the listener returns to the top of its loop for the next event.
C15_UnknownEventIgnored ==
    [][(/\ TakesMessage
        /\ IsDict(Head(result_queue))
        /\ Get(Head(result_queue), "event", "") \notin event_handlers)
          => /\ UNCHANGED <<store, ai_processing_paused, command_queues>>
             /\ log_line' = <<"unknown_event", Get(Head(result_queue), "event", "")>>
             /\ listener_pc' = "top"]_vars

\* an unknown event has just been logged while a session is stored and
\* processing is paused, and the next event waits on the channel
C15_Witness ==
    /\ log_line = <<"unknown_event", "bogus">>
    /\ listener_pc = "top"
    /\ recordings # {}
    /\ ai_processing_paused
    /\ result_queue # <<>>

(***************************************************************************)
(* Error events.                                                           *)
(***************************************************************************)
\* C16: handling an error event sets the status of the session it names to
\* ERROR when that session is stored and leaves every other row and table
\* as it is (so nothing changes when the id is missing or names no stored
\* session); in every case update_status emits ERROR and the error is
\* logged for the worker the event names.
C16_ErrorEventMarksSession ==
    [][\A e \in ErrorEvents :
          ProcessMessage(e) =>
              /\ recordings' = {IF r.id = SidOf(e) THEN [r EXCEPT !.status = ERROR]
                                                   ELSE r : r \in recordings}
              /\ (~Known(SidOf(e))) => UNCHANGED store
              /\ UNCHANGED <<transcribes, markers, tags>>
              /\ emitted' = <<<<e.worker, WorkerStatus_ERROR>>>>
              /\ log_line' = <<"worker_error", e.worker>>]_vars

\* an error event has just been handled and a session that had metadata is
\* at ERROR, next to a session that did not change
C16_Witness ==
    /\ log_line = <<"worker_error", TranscribeWorker>>
    /\ emitted = <<<<TranscribeWorker, WorkerStatus_ERROR>>>>
    /\ \E r \in recordings : r.status = ERROR /\ RowsOf(markers, r.id) # {}
    /\ \E r \in recordings : r.status = PENDING

\* C17: once the status of a session is ERROR it stays ERROR whatever event
\* is handled later, and no assignment of that session is put on a command
\* channel.
C17_ErrorHaltsProgress ==
    [][\A r \in recordings :
          r.status = ERROR =>
              /\ \A q \in recordings' : q.id = r.id => q.status = ERROR
              /\ \A w \in AIWorkers : \A i \in DOMAIN command_queues'[w] :
                     (/\ i > Len(command_queues[w])
                      /\ command_queues'[w][i].task \in {"transcribe", "generate_meta"})
                         => command_queues'[w][i].payload.session_id # r.id]_vars

(***************************************************************************)
(* Job failures in the pipeline (SpecPipeline).                            *)
(***************************************************************************)
\* the listener takes an error event that worker w put when the job it had
\* been assigned failed
TakesJobFailureOf(w) ==
    /\ TakesMessage
    /\ Get(Head(result_queue), "event", "") = "error"
    /\ Get(Head(result_queue), "worker", "") = w
    /\ job[w] # EmptyDict

\* C18: when the coordinator handles the error event of a worker whose job
\* for session S failed, the status of S becomes ERROR.
C18_JobFailureMarksSession ==
    [][\A w \in AIWorkers :
          (TakesJobFailureOf(w) /\ db_open) =>
              \A q \in recordings' : q.id = job[w].session_id => q.status = ERROR]_vars

(***************************************************************************)
(* The transcription worker and the listener with a backlog of recorded    *)
(* sessions, under fair scheduling of the worker, the listener and the     *)
(* capture.                                                                *)
(***************************************************************************)
\* sessions the capture worker records
MaxBacklog == 2

\* record_worker, one whole segment of the backlog
capture_backlog ==
    /\ pc[RecordWorker] = "start"
    /\ next_session < MaxBacklog
    /\ next_session' = next_session + 1
    /\ PutEvent(Event("record_done", RecordWorker,
                      [session_id |-> next_session', start_time |-> next_session',
                       length |-> MaxChunks, file_path |-> FilePathOf(next_session')]))
    /\ UNCHANGED <<command_queues, job, rec, pc>>
    /\ WorkerFrame

NextRetry == transcribe_worker \/ capture_backlog \/ listen

SpecRetry ==
    /\ Init
    /\ [][NextRetry]_vars
    /\ WF_vars(transcribe_worker)
    /\ WF_vars(capture_backlog)
    /\ WF_vars(listen)

\* session s has been assigned to worker w: the assignment is on its channel
\* or is the latest it took
AssignedTo(w, s) ==
    \/ Assignments(w, s) > 0
    \/ job[w] # EmptyDict /\ job[w].session_id = s

\* C19: a job failure does not halt the pipeline: every session that is
\* PENDING is eventually assigned to the transcription worker (as long as
\* the worker process lives), even when the job of another session fails
\* every time it is attempted.
C19_FailureDoesNotHaltPipeline ==
    \A s \in 1..MaxBacklog :
        [](((\E r \in recordings : r.id = s /\ r.status = PENDING)
                /\ Alive(TranscribeWorker))
              => <>(AssignedTo(TranscribeWorker, s) \/ ~Alive(TranscribeWorker)))

(***************************************************************************)
(* The worker side of the job protocol (SpecPipeline).                     *)
(***************************************************************************)
\* worker w puts message m on result_queue in this step
PutsEvent(w, m) ==
    /\ result_queue' = Append(result_queue, m)
    /\ Get(m, "worker", "") = w

DoneEventOf(w) == IF w = TranscribeWorker THEN "transcribe_done" ELSE "meta_done"

\* m is a terminal event of the job that worker w executes
TerminalEventOf(w, m) ==
    \/ /\ m.event = DoneEventOf(w)
       /\ m.payload.session_id = job[w].session_id
    \/ m.event = "error"

\* C20: a worker that took an assignment leaves the execution of the job by
\* putting exactly one terminal event on result_queue (transcribe_done or
\* meta_done for the assigned session, or error); it puts a terminal event
\* at no other moment after its start, and it puts a job request only from
\* the top of its loop, never while it executes a job.
C20_OneTerminalEventPerAssignment ==
    [][\A w \in AIWorkers :
          /\ (pc[w] \in {"transcribe", "generate"} /\ pc'[w] \notin {pc[w], "terminated"})
                => /\ Len(result_queue') = Len(result_queue) + 1
                   /\ PutsEvent(w, result_queue'[Len(result_queue')])
                   /\ TerminalEventOf(w, result_queue'[Len(result_queue')])
          /\ \A name \in {DoneEventOf(w), "error", RequestEventOf(w)} :
                (/\ Len(result_queue') = Len(result_queue) + 1
                 /\ PutsEvent(w, result_queue'[Len(result_queue')])
                 /\ result_queue'[Len(result_queue')].event = name)
                    => IF name = RequestEventOf(w)
                       THEN pc[w] = "request" /\ pc'[w] = "wait"
                       ELSE pc[w] \in {"transcribe", "generate", "start"}]_vars

\* the transcription worker has reported the failure of its job and, after
\* its back-off, has put its next request behind that terminal event
C20_Witness ==
    /\ Len(result_queue) = 2
    /\ result_queue[1].event = "error"
    /\ result_queue[1].worker = TranscribeWorker
    /\ result_queue[2].event = "request_transcribe_job"
    /\ job[TranscribeWorker] # EmptyDict
    /\ pc[TranscribeWorker] = "wait"

(***************************************************************************)
(* Order of handling (SpecPipeline).                                       *)
(***************************************************************************)
\* the completion events of worker w at positions of result_queue behind
\* position i
CompletionsBehind(w, i) ==
    {k \in DOMAIN result_queue :
        /\ k > i
        /\ Get(result_queue[k], "worker", "") = w
        /\ Get(result_queue[k], "event", "") \in {DoneEventOf(w), "error"}}

\* C21: the coordinator handles the events in the order of the channel:
\* every put appends behind the events already there, every step of the
\* listener that takes an event takes the oldest one and runs its handler to
\* the end (with its commit) before the listener is back at the top of its
\* loop; and no completion event of a worker is on the channel behind a job
\* request of that worker, so its completion event is handled before its next
\* request.
C21_EventsHandledInOrder ==
    /\ [](\A w \in AIWorkers : \A i \in DOMAIN result_queue :
             (/\ Get(result_queue[i], "event", "") = RequestEventOf(w)
              /\ Get(result_queue[i], "worker", "") = w)
                 => CompletionsBehind(w, i) = {})
    /\ [][result_queue' # result_queue =>
            \/ /\ Len(result_queue') = Len(result_queue) + 1
               /\ SubSeq(result_queue', 1, Len(result_queue)) = result_queue
               /\ UNCHANGED <<store, listener_pc>>
            \/ /\ TakesMessage
               /\ IsDict(Head(result_queue)) =>
                     /\ ProcessMessage(Head(result_queue))
                     /\ listener_pc' = "top"]_vars

\* the completion event of the metadata worker and, behind it, the worker's
\* next job request wait on the channel for the listener
C21_Witness ==
    /\ Len(result_queue) = 2
    /\ result_queue[1].event = "meta_done"
    /\ result_queue[2].event = "request_metagen_job"
    /\ listener_pc = "get"

(***************************************************************************)
(* Shutdown: the transcription worker, the capture, the listener and       *)
(* BackendApp.stop(), where only the listener thread is scheduled fairly:  *)
(* the workers and the callers of stop() may stand still for ever.         *)
(***************************************************************************)
NextShutdown ==
    \/ transcribe_worker
    \/ capture_segment
    \/ listen
    \/ stop

SpecShutdown == Init /\ [][NextShutdown]_vars /\ WF_vars(listen)

ListenerReturned == listener_pc \in {"finished", "raised"}

\* C22: the step that clears is_running puts stop at the end of the command
\* channel of every registered worker; from then on the listener starts no
\* new iteration (from the top of its loop it can only leave the loop), and
\* it leaves the loop whatever the workers do, even if none of them ever
\* takes a step again.
C22_ShutdownStopsListener ==
    /\ [][(is_running /\ ~is_running') =>
             \A w \in WorkerNames : command_queues'[w] = Append(command_queues[w], Stop)]_vars
    /\ [][(~is_running /\ listener_pc = "top") => listener_pc' \in {"top", "finished"}]_vars
    /\ (~is_running) ~> ListenerReturned

\* the loop has ended while the transcription worker, which was sent stop,
\* still executes its job and an event still waits on the channel
C22_Witness ==
    /\ listener_pc = "finished"
    /\ pc[TranscribeWorker] = "transcribe"
    /\ \E i \in DOMAIN command_queues[TranscribeWorker] :
           command_queues[TranscribeWorker][i] = Stop
    /\ result_queue # <<>>

(***************************************************************************)
(* The job pipeline under fair scheduling of the two AI workers and of the *)
(* listener: a worker that can take a step eventually takes it, so every   *)
(* job, sleep and read of a command ends.                                  *)
(***************************************************************************)
SpecPipelineFair ==
    /\ Init
    /\ [][NextPipeline]_vars
    /\ WF_vars(transcribe_worker)
    /\ WF_vars(metagen_worker)
    /\ WF_vars(listen)

\* worker w blocks in command_queue.get() and the command it will read is
\* stop: no job, chunk or sleep of the worker is under way
AboutToReadStop(w) ==
    /\ pc[w] = "wait"
    /\ command_queues[w] # <<>>
    /\ Head(command_queues[w]) = Stop

\* the event channel of the model holds as many events as it can
ChannelFull == Len(result_queue) >= MaxQueue

\* C23: every AI worker to which stop has been sent and that has no unit of
\* work under way eventually leaves its loop by itself, through the branch
\* of its loop that reads stop (its last event needs room on the channel).
C23_StopEndsWorkerCooperatively ==
    \A w \in AIWorkers : AboutToReadStop(w) ~> (pc[w] = "exited" \/ ChannelFull)

(***************************************************************************)
(* A session on its way through the pipeline (SpecPipeline).               *)
(***************************************************************************)
\* the listener takes an event named `name` in this step
TakesEvent(name) ==
    /\ TakesMessage
    /\ Get(Head(result_queue), "event", "") = name

\* the command the step appends to the channel of worker w, if it appends one
Appended(w) == command_queues'[w][Len(command_queues'[w])]
Appends(w) == Len(command_queues'[w]) = Len(command_queues[w]) + 1

\* C24: a session passes through the pipeline without failure as follows:
\* the transcription job that is assigned names a PENDING session and its
\* file; the metadata job that is assigned names a session at
\* TRANSCRIBE_DONE with the segments its transcribe_done delivered; and
\* when the meta_done of a session with markers M and tags T is handled on
\* the open store, the session is at META_DONE with exactly |M| marker rows
\* and |T| tag rows.  A session at META_DONE keeps its status and its rows.
C24_SessionThroughPipeline ==
    [][/\ (Appends(TranscribeWorker) /\ Appended(TranscribeWorker).task = "transcribe") =>
             \E r \in recordings :
                 /\ r.id = Appended(TranscribeWorker).payload.session_id
                 /\ r.file_path = Appended(TranscribeWorker).payload.file_path
                 /\ r.status = PENDING
       /\ (Appends(MetaGenWorker) /\ Appended(MetaGenWorker).task = "generate_meta") =>
             \E r \in recordings : \E d \in delivered :
                 /\ r.id = Appended(MetaGenWorker).payload.session_id
                 /\ r.status = TRANSCRIBE_DONE
                 /\ d.id = r.id
                 /\ d.segments = Appended(MetaGenWorker).payload.segments_json
       /\ (TakesEvent("meta_done") /\ db_open) =>
             LET p == Head(result_queue).payload
             IN  /\ \E r \in recordings' : r.id = p.session_id /\ r.status = META_DONE
                 /\ Cardinality(RowsOf(markers', p.session_id)) = Len(p.markers)
                 /\ Cardinality(RowsOf(tags', p.session_id)) = Len(p.tags)
       /\ \A r \in recordings :
             r.status = META_DONE =>
                 /\ r \in recordings'
                 /\ RowsOf(markers', r.id) = RowsOf(markers, r.id)
                 /\ RowsOf(tags', r.id) = RowsOf(tags, r.id)]_vars

\* the session went through both jobs: it is at META_DONE with the spoken
\* transcript, one marker row and one tag row
C24_Witness ==
    \E r \in recordings :
        /\ r.status = META_DONE
        /\ \E t \in transcribes : t.id = r.id /\ t.segments_json = json_dumps(SegmentsA)
        /\ Cardinality(RowsOf(markers, r.id)) = 1
        /\ Cardinality(RowsOf(tags, r.id)) = 1

(***************************************************************************)
(* The status signals of the coordinator (worker_status_changed).          *)
(***************************************************************************)
\* the statuses update_status emitted for worker w in the current iteration
EmittedFor(em, w) == {em[i][2] : i \in {k \in DOMAIN em : em[k][1] = w}}

\* C25: handling toggle_ai_pause flips ai_processing_paused and emits, for
\* TranscribeWorker-1 and for MetaGenWorker-1, PAUSED when the flag became
\* true and a status other than PAUSED when it became false; it emits nothing
\* for RecordWorker-1 and puts nothing on a command channel.
C25_TogglePublishesPauseAndResume ==
    [][ProcessMessage(ToggleEvent) =>
          /\ ai_processing_paused' = ~ai_processing_paused
          /\ \A w \in AIWorkers :
                /\ EmittedFor(emitted', w) # {}
                /\ \A st \in EmittedFor(emitted', w) :
                       (st = WorkerStatus_PAUSED) <=> ai_processing_paused'
          /\ EmittedFor(emitted', RecordWorker) = {}
          /\ UNCHANGED command_queues]_vars

\* C26: while ai_processing_paused is true the status emitted last for each
\* AI worker is PAUSED: the iteration that set the flag emitted PAUSED, and
\* no iteration that ends with the flag set emits another status for an AI
\* worker, also not when the worker polls and is answered standby (the
\* report of an error of the worker is left aside here).
C26_PausedWhileProcessingPaused ==
    ai_processing_paused =>
        \A w \in AIWorkers :
            EmittedFor(emitted, w) \subseteq {WorkerStatus_PAUSED, WorkerStatus_ERROR}

(***************************************************************************)
(* record_done handled again (SpecStore).                                  *)
(***************************************************************************)
\* the recordings row a record_done asks for
RowOfRecordDone(e) ==
    [id |-> e.payload.session_id, start_time |-> e.payload.start_time,
     length |-> e.payload.length, file_path |-> e.payload.file_path, status |-> PENDING]

\* C27: record_done is idempotent: from every store, handling a record_done
\* and then the same record_done again leaves the store that handling it
\* once leaves, with one recordings row for its id, at PENDING and with the
\* start_time, length and file_path of the event; and a record_done handled
\* right after itself changes no table.
C27_RecordDoneIdempotent ==
    /\ [](\A e \in RecordDoneEvents :
            LET once == handle_record_done(Db, e)
                twice == handle_record_done(once.db, e)
            IN  /\ once.ok /\ twice.ok
                /\ twice.db = once.db
                /\ {r \in once.db.recordings : r.id = SidOf(e)} = {RowOfRecordDone(e)})
    /\ [][\A e \in RecordDoneEvents :
             (ProcessMessage(e) /\ Db = handle_record_done(Db, e).db) => UNCHANGED store]_vars

\* a record_done has just been handled for a session that already had its
\* row and metadata: the row is the one of the event, next to another session
C27_Witness ==
    /\ emitted = <<<<RecordWorker, WorkerStatus_IDLE>>>>
    /\ \E e \in RecordDoneEvents :
          /\ RowOfRecordDone(e) \in recordings
          /\ RowsOf(markers, SidOf(e)) # {}
    /\ Cardinality(recordings) >= 2

(***************************************************************************)
(* The threads that use the store (SpecShutdown).                          *)
(***************************************************************************)
\* the step is taken by the thread that runs BackendApp.run: the loop of
\* listen() or, after the loop, the stop() of its finally
StepOfListenerThread ==
    \/ listener_pc' # listener_pc
    \/ listener_pc = "get" /\ result_queue' = Tail(result_queue)
    \/ stop_pc'["finally"] # stop_pc["finally"]

\* C28: every operation on the store is executed by the thread of the
\* listener: a step that writes to a table or closes the connection is a
\* step of that thread, never one of the quit thread or of the GUI thread,
\* and the connection is not closed while the loop of listen() still runs.
C28_StoreOwnedByListenerThread ==
    [][(store' # store \/ db_open' # db_open) =>
          /\ StepOfListenerThread
          /\ stop_pc'["quit"] = stop_pc["quit"]
          /\ db_open' # db_open => ListenerReturned]_vars

(***************************************************************************)
(* The headless coordinator of main.py: the same workers and store, its    *)
(* own EventListener.  listen() hands each handler the message's payload,  *)
(* not the message; there is no pause switch and no status signal.  The    *)
(* loop is `while True`, left by KeyboardInterrupt, and the finally of     *)
(* main() stops the workers and closes the store.  The workers' steps      *)
(* listed in NextHeadless are those this coordinator ever enables.         *)
(***************************************************************************)
\* what a DatabaseManager handler of main.py receives, as the record whose
\* "payload" field the store operators read
AsPayload(payload) == [payload |-> payload]

\* main.py, EventListener.handle_transcribe_job_request(payload)
main_handle_transcribe_job_request(payload) ==
    LET worker_name == Get(payload, "worker", "")
    IN  /\ IF worker_name \notin DOMAIN command_queues
           THEN UNCHANGED command_queues /\ log_line' = NoLog   \* if not command_queue: return
           ELSE IF ~db_open
           THEN UNCHANGED command_queues
                    /\ log_line' = <<"handler_error", "request_transcribe_job">>
           ELSE IF find_pending_transcribe_job(Db) # {}
           THEN \E j \in find_pending_transcribe_job(Db) :
                    Put(worker_name, AssignTranscribe(j)) /\ log_line' = NoLog
           ELSE Put(worker_name, Standby) /\ log_line' = NoLog
        /\ UNCHANGED <<store, ai_processing_paused, delivered>>

\* main.py, EventListener.handle_meta_job_request(payload); the text of
\* segments_json was written by json.dumps, so json.loads does not raise
main_handle_meta_job_request(payload) ==
    LET worker_name == Get(payload, "worker", "")
    IN  /\ IF worker_name \notin DOMAIN command_queues
           THEN UNCHANGED command_queues /\ log_line' = NoLog
           ELSE IF ~db_open
           THEN UNCHANGED command_queues
                    /\ log_line' = <<"handler_error", "request_metagen_job">>
           ELSE IF find_pending_meta_job(Db) # {}
           THEN \E j \in find_pending_meta_job(Db) :
                    Put(worker_name, AssignMeta(j)) /\ log_line' = NoLog
           ELSE Put(worker_name, Standby) /\ log_line' = NoLog
        /\ UNCHANGED <<store, ai_processing_paused, delivered>>

\* main.py, the keys of self.event_handlers
main_event_handlers ==
    {"record_done", "transcribe_done", "meta_done", "error",
     "request_transcribe_job", "request_metagen_job"}

\* main.py, listen(): handler(message.get('payload', {})) under try/except
main_CallHandler(message) ==
    LET event == Get(message, "event", "")
        payload == Get(message, "payload", EmptyDict)
    IN  CASE event = "record_done" ->
                RunDbHandler(handle_record_done(Db, AsPayload(payload)), event)
                    /\ UNCHANGED delivered
          [] event = "transcribe_done" ->
                LET r == handle_transcribe_done(Db, AsPayload(payload))
                IN  RunDbHandler(r, event) /\ Deliver_segments(r, AsPayload(payload))
          [] event = "meta_done" ->
                RunDbHandler(handle_meta_done(Db, AsPayload(payload)), event)
                    /\ UNCHANGED delivered
          [] event = "error" ->
                RunDbHandler(db_handle_error(Db, AsPayload(payload)), event)
                    /\ UNCHANGED delivered
          [] event = "request_transcribe_job" -> main_handle_transcribe_job_request(payload)
          [] event = "request_metagen_job" -> main_handle_meta_job_request(payload)
          [] OTHER -> unknown_event(event)

\* main.py, EventListener.listen: one iteration of `while True` in which
\* result_queue.get(timeout=5) returned a message
main_listen ==
    /\ listener_pc = "top"
    /\ result_queue # <<>>
    /\ result_queue' = Tail(result_queue)
    /\ IF IsDict(Head(result_queue))
       THEN /\ main_CallHandler(Head(result_queue))
            /\ emitted' = <<>>
            /\ listener_pc' = "top"
       ELSE /\ listener_pc' = "raised"
            /\ UNCHANGED <<store, ai_processing_paused, command_queues, log_line, emitted,
                           delivered>>
    /\ UNCHANGED <<is_running, db_open, pc, job, rec, next_session, stop_pc,
                   is_recording_paused, status_labels, restart_pc>>

\* main.py: KeyboardInterrupt ends listen(); the finally of main() puts stop
\* on every command channel
main_finally_begin ==
    /\ listener_pc \in {"top", "raised"}
    /\ stop_pc["finally"] = "idle"
    /\ listener_pc' = "finished"
    /\ command_queues' = [w \in WorkerNames |-> Append(command_queues[w], Stop)]
    /\ stop_pc' = [stop_pc EXCEPT !["finally"] = "join_record"]
    /\ UNCHANGED <<store, ai_processing_paused, is_running, result_queue, log_line, emitted,
                   delivered, db_open, pc, job, rec, next_session, is_recording_paused,
                   status_labels, restart_pc>>

\* main.py: the joins of the finally have returned, a worker still alive
\* after its join(timeout=10) is terminated; then db_manager.close()
main_finally_end ==
    /\ stop_pc["finally"] = "join_record"
    /\ pc' = [w \in WorkerNames |-> IF Alive(w) THEN "terminated" ELSE pc[w]]
    /\ db_open' = FALSE
    /\ stop_pc' = [stop_pc EXCEPT !["finally"] = "returned"]
    /\ UNCHANGED <<store, ai_processing_paused, is_running, result_queue, command_queues,
                   log_line, emitted, delivered, listener_pc, job, rec, next_session,
                   is_recording_paused, status_labels, restart_pc>>

NextHeadless ==
    \/ transcribe_worker_load
    \/ transcribe_worker_request
    \/ transcribe_worker_command
    \/ metagen_worker_start
    \/ metagen_worker_request
    \/ metagen_worker_command
    \/ capture_segment
    \/ main_listen
    \/ main_finally_begin
    \/ main_finally_end

\* the workers and the listener are scheduled fairly; the user may never
\* interrupt the program
SpecHeadless ==
    /\ Init
    /\ [][NextHeadless]_vars
    /\ WF_vars(transcribe_worker_load \/ transcribe_worker_request
                  \/ transcribe_worker_command)
    /\ WF_vars(metagen_worker_start \/ metagen_worker_request \/ metagen_worker_command)
    /\ WF_vars(main_listen)

\* a reply to a job request waits on the command channel of worker w
ReplyWaiting(w) ==
    \E i \in DOMAIN command_queues[w] :
        Get(command_queues[w][i], "task", "") \in {"transcribe", "generate_meta", "standby"}

\* the program was interrupted: the finally of main() has begun
Interrupted == stop_pc["finally"] # "idle"

\* C29: under main.py, when the listener takes a request_transcribe_job or
\* request_metagen_job message of a worker, it puts a reply (an assignment or
\* standby) on that worker's command channel, and a worker that blocks on its
\* command channel after its request is eventually unblocked by such a reply,
\* unless the program is interrupted first.
C29_HeadlessRequestGetsReply ==
    /\ [][\A w \in AIWorkers :
             (/\ listener_pc = "top" /\ result_queue # <<>>
              /\ result_queue' = Tail(result_queue)
              /\ Get(Head(result_queue), "event", "") \in
                     {"request_transcribe_job", "request_metagen_job"}
              /\ Get(Head(result_queue), "worker", "") = w
              /\ db_open)
             => /\ Len(command_queues'[w]) = Len(command_queues[w]) + 1
                /\ ReplyWaiting(w)']_vars
    /\ \A w \in AIWorkers : (pc[w] = "wait") ~> (ReplyWaiting(w) \/ Interrupted)

(***************************************************************************)
(* The status labels of the window.  worker_status_changed is connected to *)
(* MainWindow.update_worker_status; the signal is emitted in the backend   *)
(* thread and the slot runs in the GUI thread, one call per signal, in the *)
(* order of emission.  Here `emitted` is read as the signals of the        *)
(* iteration the slot has not run for yet.                                 *)
(***************************************************************************)
\* MainWindow.update_worker_status(worker_name, status_value) for the oldest
\* signal; a name without a label (the "MetagenWorker" of the metadata
\* worker's fatal error) changes nothing
gui_update_worker_status ==
    /\ emitted # <<>>
    /\ LET worker_name == Head(emitted)[1]
           status_value == Head(emitted)[2]
       IN  status_labels' = IF worker_name \in DOMAIN status_labels
                            THEN [status_labels EXCEPT ![worker_name] = status_value]
                            ELSE status_labels
    /\ emitted' = Tail(emitted)
    /\ UNCHANGED <<store, ai_processing_paused, is_running, result_queue, command_queues,
                   log_line, delivered, db_open, listener_pc, pc, job, rec, next_session,
                   stop_pc, is_recording_paused, restart_pc>>

\* the test of `while self.is_running`, taken once the window has shown the
\* signals of the iteration before
listen_check_shown == emitted = <<>> /\ listen_check

NextStatus ==
    \/ transcribe_worker
    \/ capture_segment
    \/ listen_check_shown
    \/ listen_get
    \/ listen_timeout
    \/ gui_toggle_ai_pause
    \/ gui_update_worker_status

SpecStatus == Init /\ [][NextStatus]_vars

\* C30: the status shown for a worker changes only along IDLE to RUNNING,
\* RUNNING to IDLE, RUNNING to ERROR, RUNNING to PAUSED and PAUSED to
\* RUNNING, or, for an AI worker, to PAUSED while processing is paused.
C30_StatusChangesAlongEdges ==
    [][\A w \in WorkerNames :
          status_labels'[w] # status_labels[w] =>
              \/ <<status_labels[w], status_labels'[w]>> \in
                     { <<WorkerStatus_IDLE, WorkerStatus_RUNNING>>,
                       <<WorkerStatus_RUNNING, WorkerStatus_IDLE>>,
                       <<WorkerStatus_RUNNING, WorkerStatus_ERROR>>,
                       <<WorkerStatus_RUNNING, WorkerStatus_PAUSED>>,
                       <<WorkerStatus_PAUSED, WorkerStatus_RUNNING>> }
              \/ /\ w \in AIWorkers
                 /\ ai_processing_paused
                 /\ status_labels'[w] = WorkerStatus_PAUSED]_vars

(***************************************************************************)
(* The dispatch with the workers' status notifications among the events.   *)
(***************************************************************************)
\* the notifications as the workers put them: the event, the worker's name
\* and, for the start of a job or segment, the session
NotificationMessages ==
    {Event(n, RecordWorker, EmptyDict) : n \in {"record_paused", "record_resumed",
                                                "record_idle"}}
    \cup {Event("record_started", RecordWorker, [session_id |-> s]) : s \in SessionIds}
    \cup {Event("transcribe_started", TranscribeWorker, [session_id |-> s]) :
             s \in SessionIds}
    \cup {Event("transcribe_idle", TranscribeWorker, EmptyDict)}

DeliverNotification == \E e \in NotificationMessages : Deliver(e)

SpecNotify == Init /\ [][NextEvents \/ DeliverNotification]_vars

\* C31: a status notification, toggle_ai_pause or a job request leaves the
\* four tables of the store unchanged; an assignment persists nothing, so the
\* session just assigned is still the one find_pending_transcribe_job (or
\* find_pending_meta_job) returns.
C31_NotificationsLeaveStore ==
    [][/\ (\E e \in NotificationMessages \cup JobRequestEvents \cup {ToggleEvent} :
              Deliver(e)) => UNCHANGED store
       /\ \A j \in find_pending_transcribe_job(Db) :
              command_queues'[TranscribeWorker] =
                  Append(command_queues[TranscribeWorker], AssignTranscribe(j))
              => j \in find_pending_transcribe_job(Db')
       /\ \A j \in find_pending_meta_job(Db) :
              command_queues'[MetaGenWorker] =
                  Append(command_queues[MetaGenWorker], AssignMeta(j))
              => j \in find_pending_meta_job(Db')]_vars

\* a transcription job was just assigned and its session is still PENDING
C31_Witness ==
    \E r \in recordings :
        /\ r.status = PENDING
        /\ command_queues[TranscribeWorker] = <<AssignTranscribe(<<r.id, r.file_path>>)>>

(***************************************************************************)
(* The reply to a job request and the status it publishes (SpecEvents).    *)
(***************************************************************************)
\* C32: when the coordinator handles the job request of a worker, it appends
\* exactly one command to that worker's channel and none to another; with
\* an assignment it publishes RUNNING for the requesting worker, with
\* standby it publishes no RUNNING.
C32_AssignmentPublishesRunning ==
    [][\A e \in {r \in JobRequestEvents : Registered(r)} :
          Deliver(e) =>
              LET w == e.worker
                  n == Len(command_queues'[w])
              IN  /\ n = Len(command_queues[w]) + 1
                  /\ \A v \in WorkerNames \ {w} : command_queues'[v] = command_queues[v]
                  /\ command_queues'[w][n].task \in {JobTaskOf(w), "standby"}
                  /\ command_queues'[w][n].task = JobTaskOf(w)
                         => emitted' = << <<w, WorkerStatus_RUNNING>> >>
                  /\ command_queues'[w][n].task = "standby"
                         => \A i \in DOMAIN emitted' : emitted'[i][2] # WorkerStatus_RUNNING]_vars

\* the metadata worker's request was answered with an assignment and RUNNING
\* was published for it
C32_Witness ==
    /\ emitted = << <<MetaGenWorker, WorkerStatus_RUNNING>> >>
    /\ Len(command_queues[MetaGenWorker]) = 1
    /\ command_queues[MetaGenWorker][1].task = "generate_meta"

(***************************************************************************)
(* The start of the three worker processes, with the listener running.     *)
(***************************************************************************)
SpecStartup ==
    Init /\ [][transcribe_worker_load \/ metagen_worker_start \/ record_worker_open
                  \/ listen]_vars

\* C33: a worker of any role whose external resource cannot be initialised
\* puts exactly one error event without a session id on the event channel and
\* exits; the coordinator marks no session ERROR and the role keeps no live
\* worker.
C33_FatalStartupReportsError ==
    /\ [][\A w \in WorkerNames :
             (pc[w] = "start" /\ pc'[w] = "exited") =>
                 /\ Len(result_queue') = Len(result_queue) + 1
                 /\ Get(result_queue'[Len(result_queue')], "event", "") = "error"
                 /\ "session_id" \notin
                        DOMAIN Get(result_queue'[Len(result_queue')], "payload", EmptyDict)]_vars
    /\ [][\A w \in WorkerNames : pc[w] = "exited" => pc'[w] = "exited"]_vars
    /\ [](\A r \in recordings : r.status # ERROR)

(***************************************************************************)
(* MainWindow.restart_worker, called by the restart button of a worker and *)
(* by the settings dialog for every worker whose configuration changed.    *)
(***************************************************************************)
\* restart_worker up to the join: stop is put on the worker's channel
restart_worker_begin(w) ==
    /\ WindowOpen
    /\ restart_pc = "idle"
    /\ Len(command_queues[w]) < MaxQueue
    /\ command_queues' = [command_queues EXCEPT ![w] = Append(@, Stop)]
    /\ restart_pc' = w
    /\ UNCHANGED <<store, ai_processing_paused, is_running, result_queue, log_line, emitted,
                   delivered, db_open, listener_pc, pc, job, rec, next_session, stop_pc,
                   is_recording_paused, status_labels>>

\* join(timeout=10) returned: a worker still alive is terminated; the method
\* returns here, no process is started
restart_worker_join(w) ==
    /\ restart_pc = w
    /\ pc' = [pc EXCEPT ![w] = IF Alive(w) THEN "terminated" ELSE @]
    /\ restart_pc' = "idle"
    /\ UNCHANGED <<store, ai_processing_paused, is_running, result_queue, command_queues,
                   log_line, emitted, delivered, db_open, listener_pc, job, rec,
                   next_session, stop_pc, is_recording_paused, status_labels>>

restart_worker == \E w \in WorkerNames : restart_worker_begin(w) \/ restart_worker_join(w)

SpecRestart ==
    Init /\ [][transcribe_worker \/ capture_segment \/ listen \/ restart_worker]_vars

\* C34: restart_worker stops the worker of the role and spawns a new worker
\* for it: when it returns the role has a live worker again, and the workers
\* of the other roles were neither stopped nor restarted.
C34_RestartSpawnsWorker ==
    [][\A w \in WorkerNames :
          /\ (restart_pc = w /\ restart_pc' = "idle") => Alive(w)'
          /\ (restart_pc # restart_pc' /\ w \in {restart_pc, restart_pc'}) =>
                 \A v \in WorkerNames \ {w} :
                     command_queues'[v] = command_queues[v] /\ pc'[v] = pc[v]]_vars

(***************************************************************************)
(* Forced termination (SpecShutdown).                                      *)
(***************************************************************************)
\* C35: a worker is terminated only by the step in which a join with
\* timeout on that worker returns, after stop was put on its channel: the
\* join of the capture worker in BackendApp.stop(), or the join of
\* restart_worker; no worker is terminated without that grace period.
C35_TerminateOnlyAfterGrace ==
    [][\A w \in WorkerNames :
          (pc'[w] = "terminated" /\ pc[w] # "terminated") =>
              \/ /\ w = RecordWorker
                 /\ \E c \in StopCallers :
                        stop_pc[c] = "join_record" /\ stop_pc'[c] = "terminate_ai"
              \/ restart_pc = w /\ restart_pc' = "idle"]_vars

(***************************************************************************)
(* The capture worker, chunk by chunk, under an arbitrary producer of the  *)
(* commands it understands and a consumer of its events.                   *)
(***************************************************************************)
RecordCommands ==
    {"pause", "resume", "stop", "mic_mute", "mic_unmute", "vc_mute", "vc_unmute"}

\* command_queues["RecordWorker-1"].put({"task": cmd})
PutRecordCommand ==
    \E cmd \in RecordCommands :
        /\ Len(command_queues[RecordWorker]) < MaxQueue
        /\ command_queues' = [command_queues EXCEPT ![RecordWorker] =
                                 Append(@, [task |-> cmd])]
        /\ UNCHANGED <<store, ai_processing_paused, is_running, result_queue, log_line,
                       emitted, delivered>>
        /\ UNCHANGED procs

\* the consumer of the event channel takes the event at its head
TakeResult ==
    /\ result_queue # <<>>
    /\ result_queue' = Tail(result_queue)
    /\ UNCHANGED <<store, ai_processing_paused, is_running, command_queues, log_line,
                   emitted, delivered>>
    /\ UNCHANGED procs

SpecCapture == Init /\ [][record_worker \/ PutRecordCommand \/ TakeResult]_vars

\* C36: during a segment the capture worker reads its command channel after
\* every chunk: the step that appends a chunk takes the command at the head
\* of the channel, if there is one, and the command takes effect in that
\* step.  pause and stop end the chunk loop; a mute or unmute command sets
\* its flag, changes nothing else of the worker and does not end the segment.
C36_CommandPolledEveryChunk ==
    [][(pc[RecordWorker] = "recording" /\ rec'.buffer = rec.buffer + 1) =>
          LET q == command_queues[RecordWorker]
              cmd == IF q = <<>> THEN "Empty" ELSE Head(q).task
              goes_on == IF rec'.buffer = MaxChunks THEN "segment_end" ELSE "recording"
          IN  /\ q # <<>> => command_queues'[RecordWorker] = Tail(q)
              /\ cmd = "pause" => rec'.pause /\ pc'[RecordWorker] = "segment_end"
              /\ cmd = "stop" => ~rec'.recording /\ pc'[RecordWorker] = "segment_end"
              /\ cmd \in {"mic_mute", "mic_unmute"} =>
                     /\ rec' = [rec EXCEPT !.mic_mute = (cmd = "mic_mute"),
                                           !.buffer = @ + 1]
                     /\ pc'[RecordWorker] = goes_on
              /\ cmd \in {"vc_mute", "vc_unmute"} =>
                     /\ rec' = [rec EXCEPT !.vc_mute = (cmd = "vc_mute"),
                                           !.buffer = @ + 1]
                     /\ pc'[RecordWorker] = goes_on
              /\ cmd \in {"Empty", "resume"} =>
                     /\ rec' = [rec EXCEPT !.buffer = @ + 1]
                     /\ pc'[RecordWorker] = goes_on]_vars

\* in the middle of a segment, after its first chunk, the microphone was
\* muted by a command and the segment goes on
C36_Witness ==
    /\ pc[RecordWorker] = "recording"
    /\ rec.buffer = 1
    /\ rec.mic_mute
    /\ ~rec.pause

(***************************************************************************)
(* Requests and replies in lockstep (SpecPipeline).                        *)
(***************************************************************************)
\* C37: in every reachable state an AI worker has at most one job request
\* that the coordinator has not handled and at most one reply that it has not
\* taken, never both; while the worker lives, a request or a reply is
\* outstanding only when the worker waits in command_queue.get().
C37_RequestReplyLockstep ==
    \A w \in AIWorkers :
        /\ Requests(w) + Replies(w) <= 1
        /\ (Alive(w) /\ Requests(w) + Replies(w) = 1) => pc[w] = "wait"

\* the transcription worker finished a job, asked again and its reply waits,
\* while the request of the metadata worker has not been handled yet
C37_Witness ==
    /\ \E r \in recordings : r.status = TRANSCRIBE_DONE
    /\ pc[TranscribeWorker] = "wait"
    /\ Replies(TranscribeWorker) = 1
    /\ Requests(MetaGenWorker) = 1

(***************************************************************************)
(* Progress of every session: the pipeline while the program runs, with    *)
(* the AI pause button, under fair scheduling.  result_queue.put never     *)
(* blocks in the program; with the channel of the model bounded by         *)
(* MaxQueue a worker's put is enabled again and again, hence strong        *)
(* fairness for the workers.                                               *)
(***************************************************************************)
SpecProgress ==
    /\ Init
    /\ [][transcribe_worker \/ metagen_worker \/ capture_segment \/ listen
              \/ gui_toggle_ai_pause]_vars
    /\ SF_vars(transcribe_worker)
    /\ SF_vars(metagen_worker)
    /\ WF_vars(listen)

\* C38: under fair scheduling of the workers and the listener, when the
\* program keeps running, no worker fails (at its start or in a job) and
\* processing is paused only for a time, every session stored by record_done
\* eventually has status META_DONE.
C38_EverySessionReachesMetaDone ==
    ( /\ [](/\ is_running
            /\ \A w \in AIWorkers : pc[w] \notin {"error_sleep", "exited", "terminated"})
      /\ <>[](~ai_processing_paused) )
    => \A s \in 1..MaxSegments :
           (\E r \in recordings : r.id = s)
               ~> (\E r \in recordings : r.id = s /\ r.status = META_DONE)

\* a session has reached META_DONE while the program runs
C38_Witness ==
    /\ is_running
    /\ ~ai_processing_paused
    /\ \E r \in recordings : r.status = META_DONE
    /\ \A w \in AIWorkers : pc[w] = "wait"

(***************************************************************************)
(* The capture worker, chunk by chunk, with the listener, the capture      *)
(* pause button and BackendApp.stop().                                     *)
(***************************************************************************)
SpecCaptureShutdown ==
    Init /\ [][record_worker \/ listen \/ gui_toggle_recording_pause \/ stop]_vars

\* C39: every record_done the capture worker has put, the one of the
\* segment cut short by stop included, is handled and stored as a session
\* row before the store is closed: once the store is closed no record_done
\* waits on the event channel for a session without a row.
C39_RecordDoneStoredBeforeClose ==
    ~db_open =>
        \A i \in DOMAIN result_queue :
            Get(result_queue[i], "event", "") = "record_done" =>
                \E r \in recordings : r.id = result_queue[i].payload.session_id

(***************************************************************************)
(* The pause protocol of the capture worker (SpecCapture).                 *)
(***************************************************************************)
\* C40: the steps of the capture worker follow the pause protocol.  A pause
\* command taken during a segment ends the chunk loop and puts no event; the
\* worker then puts record_done for that segment, and it puts record_paused
\* only at the top of its loop, which it reaches with the pause flag set
\* only after that record_done or from the paused branch itself.  While
\* paused (the pause flag set and no segment open) no step puts
\* record_started or record_done or takes a new session id, and a command
\* other than resume and stop changes at most the mute flags.  The step that
\* clears the pause flag puts record_resumed; a segment is opened only with
\* a session id larger than every earlier one, and the event channel never
\* holds two record_done events of one session.
C40_PauseProtocol ==
    [][LET w == RecordWorker
           put == IF result_queue' = result_queue \/ result_queue' = <<>>
                     \/ Len(result_queue') # Len(result_queue) + 1
                  THEN "none"
                  ELSE result_queue'[Len(result_queue')].event
           paused == rec.pause /\ pc[w] \in {"top", "paused"}
           cmd == IF command_queues[w] = <<>> THEN "Empty"
                  ELSE Head(command_queues[w]).task
       IN  /\ (~rec.pause /\ rec'.pause) =>
                  /\ pc[w] = "recording" /\ pc'[w] = "segment_end"
                  /\ put = "none"
           /\ (pc[w] = "segment_end" /\ pc'[w] # "segment_end") =>
                  /\ put = "record_done"
                  /\ result_queue'[Len(result_queue')].payload.session_id = rec.session_id
                  /\ pc'[w] = "segment_idle"
           /\ put = "record_done" => pc[w] = "segment_end"
           /\ put = "record_paused" => pc[w] = "top" /\ rec.pause /\ pc'[w] = "paused"
           /\ (pc'[w] = "top" /\ rec'.pause /\ pc[w] # "top") =>
                  pc[w] \in {"segment_idle", "paused"}
           /\ paused =>
                  /\ put \notin {"record_started", "record_done"}
                  /\ next_session' = next_session
                  /\ rec'.session_id = rec.session_id
                  /\ pc'[w] \notin {"recording", "segment_end", "segment_idle"}
           /\ (pc[w] = "paused" /\ pc'[w] # "paused" /\ cmd \notin {"resume", "stop"}) =>
                  /\ rec' = [rec EXCEPT
                               !.mic_mute = IF cmd = "mic_mute" THEN TRUE
                                            ELSE IF cmd = "mic_unmute" THEN FALSE ELSE @,
                               !.vc_mute = IF cmd = "vc_mute" THEN TRUE
                                           ELSE IF cmd = "vc_unmute" THEN FALSE ELSE @]
                  /\ pc'[w] = "top"
                  /\ put = "none"
           /\ (rec.pause /\ ~rec'.pause) =>
                  /\ pc[w] = "paused" /\ cmd = "resume"
                  /\ put = "record_resumed"
                  /\ pc'[w] = "top"
           /\ put = "record_resumed" => rec.pause /\ ~rec'.pause
           /\ (pc'[w] = "recording" /\ pc[w] # "recording") =>
                  /\ ~rec.pause
                  /\ put = "record_started"
                  /\ rec'.session_id = next_session'
                  /\ result_queue'[Len(result_queue')].payload.session_id = next_session'
                  /\ next_session' > next_session
                  /\ rec'.session_id > rec.session_id
           /\ \A i, j \in DOMAIN result_queue' :
                  (/\ result_queue'[i].event = "record_done"
                   /\ result_queue'[j].event = "record_done"
                   /\ result_queue'[i].payload.session_id = result_queue'[j].payload.session_id)
                  => i = j]_vars

\* after a pause that cut the first segment short and a resume, the second
\* session has been opened: record_resumed and the record_started of
\* session 2 are on the event channel
C40_Witness ==
    /\ pc[RecordWorker] = "recording"
    /\ ~rec.pause
    /\ rec.session_id = 2
    /\ Len(result_queue) = 2
    /\ result_queue[1].event = "record_resumed"
    /\ result_queue[2].event = "record_started"
    /\ result_queue[2].payload.session_id = 2

====
